---- MODULE Spec2Model ----
(***************************************************************************)
(* A model of TLDW-bilibili: the Bilibili analysis cache (the SQL          *)
(* migration and the check-video-cache route) and the analyze page's       *)
(* controller (processVideo, the rate-limit check, theme selection).       *)
(***************************************************************************)
EXTENDS Integers, Sequences, FiniteSets, TLC

\* SQL NULL / JavaScript null.
NULL == "NULL"

(***************************************************************************)
(* Bounds of the cache model.                                              *)
(***************************************************************************)
\* Most rows the Bilibili table holds in a checked behaviour.
MaxRows == 2

\* Video identifiers: BV ids and (digit-only) av ids are disjoint texts.
Bvids == {"BV1"}
Aids == {"101"}
YoutubeIds == {"ytAAAAAAAA1"}
\* jsonb payloads of topics, summary and suggested_questions.
JVals(f) == IF f = "topics" THEN {"j1", "j2"} ELSE IF f = "summary" THEN {"s1"} ELSE {"q1"}
\* transcript payloads.
TVals == {"t1"}

OrNull(S) == S \cup {NULL}

\* No row under a youtube_id; no response received yet.
NoRow == [absent |-> TRUE]
NoResponse == [status |-> 0]

VARIABLES
    rows,          \* bilibili_video_analyses: sequence of rows, id = position
    ytRows,        \* video_analyses: youtube_id -> row or NULL
    supplied,      \* history: per video key, the last non-null value each field was given
    sessionUser,   \* the user of the session that calls the cache route (NULL: anonymous)
    userVideos,    \* user_videos: the row ids linked to sessionUser
    cacheResult    \* the last response of the check-video-cache route

dbVars == <<rows, ytRows, supplied, sessionUser, userVideos, cacheResult>>

VARIABLES
    user,                  \* useAuth().user of the page (NULL: anonymous)
    srvLimit,              \* what /api/check-limit reports for this user
    route,                 \* the router's location
    pageState, error, isRateLimitError,
    videoId, videoInfo, transcript, topics, baseTopics, selectedTopic,
    takeaways,             \* the takeaways tab: "none", "loading", "content" or "error"
    themes, selectedTheme, themeTopicsMap, isLoadingThemeTopics, themeError,
    rateLimitInfo,         \* rateLimitInfo.remaining
    authLimitReached,
    hasRedirectedForLimit, \* hasRedirectedForLimit.current
    selectedThemeRef, nextThemeRequestId, activeThemeRequestId, pendingThemeRequests,
    themeInFlight,         \* theme requests awaiting their response
    limitInFlight,         \* un-awaited checkRateLimit() calls awaiting their response
    background,            \* background operations awaiting their response
    pc,                    \* where processVideo is suspended
    pv,                    \* processVideo's closure and locals
    issued,                \* the endpoints this processVideo run has requested
    pageStateLog,          \* the setPageState calls of this processVideo run
    loadingStage,          \* the loadingStage state (NULL: null)
    outcome,               \* the path this processVideo run ended on
    runs,                  \* processVideo invocations so far
    discarded,             \* history: theme requests whose response found another theme selected
    issuedThemeIds,        \* history: the request ids handleThemeSelect has issued on this page
    usedTopicKeys          \* the quote keys theme requests ask to exclude

viewVars ==
    <<pageState, error, isRateLimitError, videoId, videoInfo, transcript, topics,
      baseTopics, selectedTopic, takeaways, themes, selectedTheme, themeTopicsMap, isLoadingThemeTopics,
      themeError>>

limitVars == <<rateLimitInfo, authLimitReached, hasRedirectedForLimit, route, limitInFlight>>

themeRefVars ==
    <<selectedThemeRef, nextThemeRequestId, activeThemeRequestId, pendingThemeRequests,
      themeInFlight, discarded, issuedThemeIds>>

runVars == <<pc, pv, issued, pageStateLog, loadingStage, outcome, runs, background>>

pageVars == <<user, srvLimit, viewVars, limitVars, themeRefVars, usedTopicKeys, runVars>>

VARIABLES
    url,        \* the URL text handed to extractVideoId
    extracted   \* what extractVideoId returned for it ("unset": not called yet)

libVars == <<url, extracted>>

VARIABLES
    request,    \* the body of the request an API route handler received
    response    \* the handler's answer: route, HTTP status, upstream and database calls made

routeVars == <<request, response>>

VARIABLES
    playbackCommand,  \* the page's playbackCommand state (NoCommand: null)
    issuedCommands,   \* history: how many commands were set as playbackCommand
    applied,          \* history: how many times the player applied each command
    cleared,          \* history: the commands replaced by null
    commandTimer,     \* the executor effect's pending 50 ms timeout (0: none), by command
    playerReady,
    playerTopics,     \* the topics prop of the player: the first segment of each topic
    isPlaying, currentTime,
    isPlayingAll, playAllIndex,
    seekTimers,       \* the Play All effect's pending 100 ms timeouts, by topic index
    started,          \* history: the indexes Play All started since it was requested
    playAllEnded,     \* history: the interval ended Play All at the last topic
    citationReel,     \* the selected topic when it is a citation reel: its segments
    citationReelSegmentIndex,
    reelLog,          \* history: the segment indexes the selected reel has sought to
    reelEnded         \* history: the monitor ended the selected reel after its last segment

commandVars == <<playbackCommand, issuedCommands, applied, cleared, commandTimer>>
playAllVars == <<isPlayingAll, playAllIndex, seekTimers, started, playAllEnded>>
reelVars == <<citationReel, citationReelSegmentIndex, reelLog, reelEnded>>
playerVars ==
    <<commandVars, playerReady, playerTopics, isPlaying, currentTime, playAllVars, reelVars>>

VARIABLES
    pendingVideoId,       \* sessionStorage 'pendingVideoId' (NULL: absent)
    hasAttemptedLinking,  \* hasAttemptedLinking.current
    linkPc,               \* where the linking attempt is: idle, timer, check, link, done
    retryCount,           \* the retryCount of the checkPendingVideoLink call under way
    checkLog,             \* history: the answers of the /api/check-video-cache calls made
    linkLog,              \* history: the answers of the /api/link-video calls made
    retryDelays,          \* history: the delays (ms) of the retry timeouts set
    recordVisible,        \* the analysis record: "no" read sees it, "some" do, or "all"
    visibleAtFirst,       \* history: recordVisible when the first attempt ran
    linked                \* the server linked the video to the account

linkVars ==
    <<pendingVideoId, hasAttemptedLinking, linkPc, retryCount, checkLog, linkLog,
      retryDelays, recordVisible, visibleAtFirst, linked>>

VARIABLES
    subtitleBody,        \* the body of the Bilibili subtitle file: entries from, to, content
    transcriptResponse   \* what /api/transcript answered for it (status 0: not yet)

subtitleVars == <<subtitleBody, transcriptResponse>>

VARIABLES
    provider,         \* the request handled and what the providers hold for its video
    providerPc,       \* "start", "awaiting" an outbound call, "done"
    outboundCall,     \* the outbound call awaited: api, phase, whether its timeout is armed
    callLog,          \* the outbound calls made for the request, in order
    thrownKind,       \* what the last failed call threw: "error", "timeout"
    chosenSubtitle,   \* preferredSubtitle
    providerAnswer    \* the response of the route

providerVars == <<provider, providerPc, outboundCall, callLog, thrownKind,
                  chosenSubtitle, providerAnswer>>

VARIABLES
    ytUpstream,       \* what the Supadata transcript API does for the YouTube video
    ytStatus,         \* the status /api/transcript answers with (0: not yet)
    infoUpstream,     \* what the metadata providers do for the video of /api/video-info
    infoAnswer        \* the response of /api/video-info

upstreamVars == <<ytUpstream, ytStatus, infoUpstream, infoAnswer>>

VARIABLES
    superseded        \* the processVideo invocation a newer one overtook: where it is suspended

\* The two background operations that persist a finished analysis.
VARIABLES
    saveArgs,             \* what 'save-complete-analysis' posts to /api/save-analysis
    savePc,               \* where 'save-complete-analysis' is
    questionsPc,          \* where 'generate-questions' and its 'update-questions' are
    normalizedQuestions   \* the questions 'update-questions' posts

persistVars == <<saveArgs, savePc, questionsPc, normalizedQuestions>>

NoSaveArgs ==
    [bvid |-> NULL, aid |-> NULL, transcript |-> NULL, topics |-> NULL, summary |-> NULL,
     suggested_questions |-> NULL]

\* No analysis is being persisted.
InitPersist ==
    /\ saveArgs = NoSaveArgs
    /\ savePc = "none"
    /\ questionsPc = "none"
    /\ normalizedQuestions = NULL

\* What the page's actions leave alone beside the database.
besidePage ==
    <<libVars, routeVars, playerVars, linkVars, subtitleVars, providerVars, upstreamVars>>

otherVars == <<besidePage, superseded, persistVars>>

\* What the actions of one part leave alone.
exceptLib == <<dbVars, pageVars, routeVars, playerVars, linkVars, subtitleVars, providerVars,
    upstreamVars, superseded, persistVars>>
exceptRoute == <<dbVars, pageVars, libVars, playerVars, linkVars, subtitleVars, providerVars,
    upstreamVars, superseded, persistVars>>
exceptPlayer == <<dbVars, pageVars, libVars, routeVars, linkVars, subtitleVars, providerVars,
    upstreamVars, superseded, persistVars>>
exceptLink == <<dbVars, pageVars, libVars, routeVars, playerVars, subtitleVars, providerVars,
    upstreamVars, superseded, persistVars>>
exceptSubtitle == <<dbVars, pageVars, libVars, routeVars, playerVars, linkVars, providerVars,
    upstreamVars, superseded, persistVars>>
exceptProvider == <<dbVars, pageVars, libVars, routeVars, playerVars, linkVars, subtitleVars,
    upstreamVars, superseded, persistVars>>
exceptUpstream ==
    <<dbVars, pageVars, libVars, routeVars, playerVars, linkVars, subtitleVars, providerVars,
      superseded, persistVars>>

vars == <<dbVars, pageVars, otherVars>>

(***************************************************************************)
(* Table bilibili_video_analyses.                                          *)
(***************************************************************************)
Fields == {"topics", "summary", "suggested_questions"}

\* CONSTRAINT bilibili_video_analyses_bvid_aid_check, with the constraint dropped.
BvidAidCheck_Dropped(bvid, aid) == TRUE

\* CONSTRAINT bilibili_video_analyses_bvid_aid_check.
BvidAidCheck(bvid, aid) ==
    \/ bvid # NULL /\ aid = NULL
    \/ bvid = NULL /\ aid # NULL
    \/ bvid # NULL /\ aid # NULL

\* bvid text UNIQUE: NULLs never conflict.
BvidConflicts(tbl, bvid) == {i \in DOMAIN tbl : bvid # NULL /\ tbl[i].bvid = bvid}

\* transcript jsonb NOT NULL.
NotNullOk(v) == v # NULL

Row(bvid, aid, tr, tp, su, sq) ==
    [bvid |-> bvid, aid |-> aid, transcript |-> tr, topics |-> tp,
     summary |-> su, suggested_questions |-> sq]

\* A plain INSERT of one row: the table after it (unchanged when a constraint rejects it).
InsertInto(tbl, r) ==
    IF /\ NotNullOk(r.transcript)
       /\ BvidAidCheck(r.bvid, r.aid)
       /\ BvidConflicts(tbl, r.bvid) = {}
    THEN Append(tbl, r)
    ELSE tbl

Coalesce(a, b) == IF a # NULL THEN a ELSE b

UpsertArgs ==
    [bvid : OrNull(Bvids), aid : OrNull(Aids), transcript : OrNull(TVals),
     topics : OrNull(JVals("topics")), summary : OrNull(JVals("summary")),
     suggested_questions : OrNull(JVals("suggested_questions"))]

\* Whether upsert_bilibili_video_analysis(a) raises (no row is written then).
UpsertRaises(tbl, a) ==
    \/ a.bvid = NULL /\ a.aid = NULL
    \/ ~NotNullOk(a.transcript)
    \/ ~BvidAidCheck(a.bvid, a.aid)

\* upsert_bilibili_video_analysis: INSERT ... ON CONFLICT (bvid) DO UPDATE.
UpsertRows(tbl, a) ==
    IF UpsertRaises(tbl, a) THEN tbl
    ELSE IF BvidConflicts(tbl, a.bvid) # {}
    THEN [i \in DOMAIN tbl |->
            IF i \in BvidConflicts(tbl, a.bvid)
            THEN [tbl[i] EXCEPT
                    !.topics = Coalesce(a.topics, tbl[i].topics),
                    !.summary = Coalesce(a.summary, tbl[i].summary),
                    !.suggested_questions =
                        Coalesce(a.suggested_questions, tbl[i].suggested_questions)]
            ELSE tbl[i]]
    ELSE Append(tbl, Row(a.bvid, a.aid, a.transcript, a.topics, a.summary,
                         a.suggested_questions))

\* The video a call or a row is about: its bvid, or its aid when it has no bvid.
VideoKey(bvid, aid) == IF bvid # NULL THEN bvid ELSE aid

NoneSupplied == [f \in Fields |-> NULL]

InitDb ==
    /\ rows = <<>>
    /\ ytRows = [y \in YoutubeIds |-> NoRow]
    /\ supplied = [k \in Bvids \cup Aids |-> NoneSupplied]
    /\ sessionUser \in {NULL, "u1"}
    /\ userVideos = {}
    /\ cacheResult = NoResponse

Upsert(a) ==
    /\ Len(rows) < MaxRows \/ UpsertRows(rows, a) = rows \/ Len(UpsertRows(rows, a)) = Len(rows)
    /\ rows' = UpsertRows(rows, a)
    /\ supplied' =
         IF UpsertRaises(rows, a) THEN supplied
         ELSE [supplied EXCEPT ![VideoKey(a.bvid, a.aid)] =
                 [f \in Fields |-> Coalesce(a[f], @[f])]]
    /\ UNCHANGED <<ytRows, sessionUser, userVideos, cacheResult, pageVars, otherVars>>

(***************************************************************************)
(* Table video_analyses (YouTube). Its migration is not part of the        *)
(* sources; the row is unique on youtube_id and merged like the Bilibili   *)
(* one.                                                                    *)
(***************************************************************************)
YoutubeArgs ==
    [youtube_id : YoutubeIds, transcript : TVals, topics : OrNull({"j1"}),
     summary : OrNull({"s1"}), suggested_questions : {NULL}]

SaveYoutube(a) ==
    /\ ytRows' =
         [ytRows EXCEPT ![a.youtube_id] =
            IF @ = NoRow
            THEN [transcript |-> a.transcript, topics |-> a.topics,
                  summary |-> a.summary, suggested_questions |-> a.suggested_questions]
            ELSE [transcript |-> @.transcript,
                  topics |-> Coalesce(a.topics, @.topics),
                  summary |-> Coalesce(a.summary, @.summary),
                  suggested_questions |->
                      Coalesce(a.suggested_questions, @.suggested_questions)]]
    /\ UNCHANGED <<rows, supplied, sessionUser, userVideos, cacheResult, pageVars, otherVars>>

(***************************************************************************)
(* URLs, as far as the routes read them: the site detectPlatform finds and *)
(* the token extractVideoId captures.                                      *)
(***************************************************************************)
NoUrl == [site |-> NULL, vid |-> NULL, given |-> FALSE]

Urls ==
    {NoUrl}
    \cup [site : {"youtube"}, vid : OrNull(YoutubeIds), given : {TRUE}]
    \cup [site : {"bilibili"}, vid : OrNull(Bvids \cup Aids), given : {TRUE}]
    \cup [site : {"other"}, vid : {NULL}, given : {TRUE}]

DetectPlatform(u) == IF u.site \in {"youtube", "bilibili"} THEN u.site ELSE NULL

ExtractVideoId(u) == u.vid

(***************************************************************************)
(* POST /api/check-video-cache.                                            *)
(***************************************************************************)
\* supabase .single(): the data when the query matches exactly one row, else none.
Single(S) == IF Cardinality(S) = 1 THEN S ELSE {}

\* .from('bilibili_video_analyses').or(`bvid.eq.${videoId},aid.eq.${videoId}`)
BilibiliMatches(tbl, vid) ==
    {[id |-> ToString(i), row |-> tbl[i]] :
        i \in {j \in DOMAIN tbl : tbl[j].bvid = vid \/ tbl[j].aid = vid}}

\* .from('video_analyses').eq('youtube_id', videoId)
YoutubeMatches(yt, vid) ==
    {[id |-> y, row |-> yt[y]] : y \in {z \in DOMAIN yt : z = vid /\ yt[z] # NoRow}}

\* cachedVideo: the set holding the record the handler read, empty when data is null.
CachedVideo(tbl, yt, platform, vid) ==
    IF platform = "youtube"
    THEN Single(YoutubeMatches(yt, vid))
    ELSE Single(BilibiliMatches(tbl, vid))

\* JavaScript truthiness of a jsonb payload (modelled payloads are arrays or objects).
Truthy(v) == v # NULL

BadRequest == [status |-> 400, providerCalls |-> 0]

\* The handler's JSON response.
CacheResponse(tbl, yt, u) ==
    IF ~u.given THEN BadRequest
    ELSE IF DetectPlatform(u) = NULL THEN BadRequest
    ELSE IF ExtractVideoId(u) = NULL THEN BadRequest
    ELSE LET found == {c \in CachedVideo(tbl, yt, DetectPlatform(u), ExtractVideoId(u)) :
                          Truthy(c.row.topics)}
         IN  IF found # {}
             THEN LET c == CHOOSE x \in found : TRUE
                  IN  [status |-> 200, cached |-> TRUE, videoId |-> ExtractVideoId(u),
                       platform |-> DetectPlatform(u), topics |-> c.row.topics,
                       transcript |-> c.row.transcript, summary |-> c.row.summary,
                       suggestedQuestions |-> c.row.suggested_questions,
                       recordId |-> c.id, providerCalls |-> 0]
             ELSE [status |-> 200, cached |-> FALSE, videoId |-> ExtractVideoId(u),
                   platform |-> DetectPlatform(u), providerCalls |-> 0]

CheckVideoCache(u) ==
    /\ cacheResult' = CacheResponse(rows, ytRows, u)
    /\ userVideos' =
         IF cacheResult'.status = 200 /\ cacheResult'.cached /\ sessionUser # NULL
         THEN userVideos \cup {<<cacheResult'.platform, cacheResult'.recordId>>}
         ELSE userVideos
    /\ UNCHANGED <<rows, ytRows, supplied, sessionUser, pageVars, otherVars>>

(***************************************************************************)
(* Direct writes to the table (the row-level-security policies allow       *)
(* authenticated INSERT and UPDATE).                                       *)
(***************************************************************************)
RawRows ==
    [bvid : OrNull(Bvids), aid : OrNull(Aids), transcript : OrNull(TVals),
     topics : OrNull({"j1"}), summary : {NULL}, suggested_questions : {NULL}]

InsertRow(r) ==
    /\ Len(rows) < MaxRows
    /\ rows' = InsertInto(rows, r)
    /\ UNCHANGED <<ytRows, supplied, sessionUser, userVideos, cacheResult, pageVars, otherVars>>

\* UPDATE ... SET bvid = b, aid = a WHERE id = i (rejected rows stay as they are).
UpdateRowIds(i, b, a) ==
    /\ i \in DOMAIN rows
    /\ rows' =
         IF BvidAidCheck(b, a) /\ BvidConflicts(rows, b) \subseteq {i}
         THEN [rows EXCEPT ![i].bvid = b, ![i].aid = a]
         ELSE rows
    /\ UNCHANGED <<ytRows, supplied, sessionUser, userVideos, cacheResult, pageVars, otherVars>>

(***************************************************************************)
(* The analyze page (AnalyzePage).                                         *)
(***************************************************************************)
\* Bounds of the page model.
MaxRuns == 2            \* processVideo invocations in a checked behaviour
MaxTopics == 1          \* topics a response carries at most
MaxThemeRequests == 3   \* theme requests issued between two processVideo runs
MaxLimitChecks == 1     \* un-awaited checkRateLimit() calls in flight at once

Themes == {"A", "B"}

AUTH_LIMIT_MESSAGE == "auth-limit-message"
INVALID_URL_MESSAGE == "invalid-url"
EMPTY_THEME_MESSAGE == "no-highlights-for-theme"

\* rateLimitInfo.remaining: a number or null.
Num(n) == [isNum |-> TRUE, n |-> n]
NullRemaining == [isNum |-> FALSE, n |-> 0]

\* Topic lists: where the list came from and how many topics it holds.
TopicList(src, n) == [src |-> src, n |-> n, hydrated |-> FALSE]
EmptyList == [src |-> "empty", n |-> 0, hydrated |-> TRUE]
NoList == [src |-> "absent", n |-> 0, hydrated |-> FALSE]
NoTopic == [src |-> "none", idx |-> 0]
\* topics[0], or null for an empty list.
FirstTopic(list) == IF list.n > 0 THEN [src |-> list.src, idx |-> 1] ELSE NoTopic
\* The keys `${quote.timestamp}|${quote.text}` of a list's topics.
QuoteKeys(list) == {<<list.src, i>> : i \in 1..list.n}

\* Transcripts: the number of segments.
RawTranscript(n) == [n |-> n, normalized |-> FALSE]
EmptyTranscript == [n |-> 0, normalized |-> TRUE]

\* normalizeTranscript (lib/topic-utils): cleans each segment, keeps their number.
NormalizeTranscript(t) == [n |-> t.n, normalized |-> TRUE]

\* hydrateTopicsWithTranscript (lib/topic-utils): resolves each topic's segments
\* against the transcript, keeps the topics.
HydrateTopicsWithTranscript(list, t) ==
    IF list.n = 0 THEN EmptyList ELSE [list EXCEPT !.hydrated = TRUE]

\* Array.isArray(x) ? x : []
ArrayOrEmpty(list) == IF list.src = "not-an-array" THEN EmptyList ELSE list

AnalysisEndpoints ==
    {"/api/transcript", "/api/video-info", "/api/video-analysis", "/api/generate-summary"}

\* processVideo's closure values and locals: authLimitReached and currentRemaining as
\* captured, latestLimitData, cacheData, topicsData, and the summary result.
NoCacheData == [kind |-> "none", transcript |-> RawTranscript(0),
                topics |-> TopicList("cache", 0), hasSummary |-> FALSE]
NoLocals == [authLimitReached |-> FALSE, remaining |-> Num(-1), limitData |-> "none",
             cacheData |-> NoCacheData, topicsData |-> NoList, themes |-> {},
             summary |-> "none",
             videoInfoReply |-> "none",   \* what the /api/video-info fetch settled with
             summaryRequest |-> "none",   \* the /api/generate-summary request
             savedVideoInfo |-> "none"]   \* videoInfo in the body sent to /api/save-analysis

ServerLimits ==
    [canGenerate : BOOLEAN, hasRemaining : {TRUE}, remaining : {Num(0), Num(1), NullRemaining}]

\* No processVideo invocation has been overtaken.
NoRun == [pc |-> "none"]

InitPage ==
    /\ user \in {NULL, "u1"}
    /\ srvLimit \in {l \in ServerLimits :
                        IF user = NULL THEN l.canGenerate = (l.remaining # Num(0))
                        ELSE l.remaining = Num(1)}
    /\ route = "/analyze"
    /\ pageState \in {"ANALYZING_NEW", "LOADING_CACHED"}
    /\ error = ""
    /\ isRateLimitError = FALSE
    /\ videoId = NULL
    /\ videoInfo = NULL
    /\ takeaways = "none"
    /\ transcript = EmptyTranscript
    /\ topics = EmptyList
    /\ baseTopics = EmptyList
    /\ selectedTopic = NoTopic
    /\ themes = {}
    /\ selectedTheme = NULL
    /\ themeTopicsMap = [t \in Themes |-> NoList]
    /\ isLoadingThemeTopics = FALSE
    /\ themeError = NULL
    /\ rateLimitInfo = Num(-1)
    /\ authLimitReached = FALSE
    /\ hasRedirectedForLimit = FALSE
    /\ selectedThemeRef = NULL
    /\ nextThemeRequestId = 0
    /\ activeThemeRequestId = 0
    /\ pendingThemeRequests = [t \in Themes |-> 0]
    /\ themeInFlight = {}
    /\ limitInFlight = 1           \* the mount effect's checkRateLimit()
    /\ background = {}
    /\ pc = "idle"
    /\ pv = NoLocals
    /\ issued = {}
    /\ pageStateLog = <<>>
    /\ loadingStage = NULL
    /\ outcome = "none"
    /\ runs = 0
    /\ discarded = {}
    /\ issuedThemeIds = {}
    /\ usedTopicKeys = QuoteKeys(baseTopics)

(***************************************************************************)
(* checkRateLimit, checkGenerationLimit, redirectToAuthForLimit.           *)
(***************************************************************************)
\* What a settled /api/check-limit fetch gives checkRateLimit: the data, or a throw.
LimitReplies == {"data", "throw"}

\* setAuthLimitReached(Boolean(data?.isAuthenticated && data?.canGenerate === false))
AuthLimitAfter(reply) ==
    IF reply = "data" THEN user # NULL /\ srvLimit.canGenerate = FALSE ELSE FALSE

\* setRateLimitInfo({remaining: ...}) when the data has a 'remaining' property.
RateLimitInfoAfter(reply) ==
    IF reply = "data" /\ srvLimit.hasRemaining THEN srvLimit.remaining ELSE rateLimitInfo

\* An un-awaited checkRateLimit() call settles.
CheckRateLimitSettled(reply) ==
    /\ limitInFlight > 0
    /\ limitInFlight' = limitInFlight - 1
    /\ authLimitReached' = AuthLimitAfter(reply)
    /\ rateLimitInfo' = RateLimitInfoAfter(reply)
    /\ UNCHANGED <<user, srvLimit, viewVars, hasRedirectedForLimit, route, themeRefVars, usedTopicKeys,
                   runVars, dbVars, otherVars>>

\* The anonymous branch of checkGenerationLimit: the limit is used up.
GuestLimitReached_NoCheck(effectiveRemaining) == FALSE

GuestLimitReached(effectiveRemaining) ==
    /\ effectiveRemaining.isNum
    /\ effectiveRemaining.n # -1
    /\ effectiveRemaining.n <= 0

\* checkGenerationLimit(pendingVideoId, remainingOverride), as processVideo's closure
\* holds it: "ok", "auth-limit" (message shown) or "guest-limit" (redirect).
CheckGenerationLimit(closureAuthLimitReached, effectiveRemaining) ==
    IF user # NULL
    THEN IF closureAuthLimitReached THEN "auth-limit" ELSE "ok"
    ELSE IF GuestLimitReached(effectiveRemaining) THEN "guest-limit" ELSE "ok"

\* processVideo's effectiveRemaining after its own checkRateLimit() (lines 639-651).
EffectiveRemaining(currentRemaining, reply) ==
    IF reply = "data" /\ srvLimit.hasRemaining THEN srvLimit.remaining ELSE currentRemaining

(***************************************************************************)
(* processVideo, one action per stretch between two awaits.                *)
(***************************************************************************)
\* The finally block: setPageState('IDLE'), the run is over.
\* (takeaways: setIsGeneratingTakeaways(false) ends a "loading" tab.)
StopLoading(t) == IF t = "loading" THEN "none" ELSE t

FinallyLoadingStage_Kept(stage) == stage
\* setLoadingStage(null) of the finally block and of the hit path.
FinallyLoadingStage(stage) == NULL

\* The synchronous head of processVideo(url, mode): validation, cleanup of the
\* previous analysis, reset of the view, the cache request.
ProcessVideoBody(urlValid) ==
    /\ runs < MaxRuns
    /\ route = "/analyze"
    /\ runs' = runs + 1
    /\ IF ~urlValid
       THEN /\ error' = INVALID_URL_MESSAGE
            /\ pageState' = "IDLE"
            /\ pageStateLog' = <<"IDLE">>
            /\ loadingStage' = FinallyLoadingStage(loadingStage)
            /\ pc' = "done"
            /\ outcome' = "invalid-url"
            /\ issued' = {}
            /\ pv' = NoLocals
            /\ takeaways' = StopLoading(takeaways)
            /\ UNCHANGED <<isRateLimitError, videoId, videoInfo, transcript, topics,
                           baseTopics, usedTopicKeys, selectedTopic, themes, selectedTheme,
                           themeTopicsMap, isLoadingThemeTopics, themeError, themeRefVars>>
       ELSE \* abortManager.cleanup() aborts every request it tracks: the theme
            \* requests in flight end on their AbortError branch.
            /\ themeInFlight' = {}
            /\ pendingThemeRequests' = [t \in Themes |-> 0]
            /\ activeThemeRequestId' = 0
            /\ nextThemeRequestId' = 0
            /\ selectedThemeRef' = NULL
            /\ error' = ""
            /\ isRateLimitError' = FALSE
            /\ topics' = EmptyList
            /\ baseTopics' = EmptyList
            /\ usedTopicKeys' = {}
            /\ transcript' = EmptyTranscript
            /\ themes' = {}
            /\ selectedTheme' = NULL
            /\ themeTopicsMap' = [t \in Themes |-> NoList]
            /\ themeError' = NULL
            /\ isLoadingThemeTopics' = FALSE
            /\ selectedTopic' = NoTopic
            /\ videoInfo' = NULL
            /\ takeaways' = "none"
            /\ videoId' = "v1"
            /\ pv' = [NoLocals EXCEPT !.authLimitReached = authLimitReached,
                                      !.remaining = rateLimitInfo]
            /\ issued' = {"/api/check-video-cache"}
            /\ pageStateLog' = <<>>
            /\ pc' = "cache"
            /\ outcome' = "running"
            /\ discarded' = {}
            /\ UNCHANGED <<pageState, loadingStage, issuedThemeIds>>
    /\ UNCHANGED <<user, srvLimit, limitVars, background, dbVars, besidePage, persistVars>>

\* processVideo is invoked while no invocation is under way.
ProcessVideoStart(urlValid) ==
    /\ pc \in {"idle", "done"}
    /\ ProcessVideoBody(urlValid)
    /\ UNCHANGED superseded

\* checkGenerationLimit and what follows it up to the transcript and video-info
\* requests (lines 653-690), or the return when the limit is reached.
GenerationLimitStep(closureAuthLimitReached, effectiveRemaining) ==
    LET verdict == CheckGenerationLimit(closureAuthLimitReached, effectiveRemaining)
    IN  /\ isRateLimitError' = IF verdict = "auth-limit" THEN TRUE ELSE isRateLimitError
        /\ error' = IF verdict = "auth-limit" THEN AUTH_LIMIT_MESSAGE ELSE error
        /\ hasRedirectedForLimit' = (hasRedirectedForLimit \/ verdict = "guest-limit")
        /\ route' = IF verdict = "guest-limit" THEN "/?auth=limit" ELSE route
        /\ pageState' = IF verdict = "ok" THEN "ANALYZING_NEW" ELSE "IDLE"
        /\ pageStateLog' = Append(pageStateLog, pageState')
        /\ loadingStage' = IF verdict = "ok" THEN "fetching"
                           ELSE FinallyLoadingStage(loadingStage)
        /\ pc' = IF verdict = "ok" THEN "fetch" ELSE "done"
        /\ outcome' = IF verdict = "ok" THEN outcome ELSE verdict
        /\ takeaways' = IF verdict = "ok" THEN takeaways ELSE StopLoading(takeaways)
        /\ issued' = issued \cup
                        (IF verdict = "ok" THEN {"/api/transcript", "/api/video-info"} ELSE {})

CachedTopicPayloads ==
    {TopicList("cache", n) : n \in 0..MaxTopics} \cup {TopicList("not-an-array", 0)}

\* What the /api/check-video-cache fetch settles with.
CacheReplies ==
    [kind : {"reject", "http-error", "miss"}, transcript : {RawTranscript(0)},
     topics : {TopicList("cache", 0)}, hasSummary : {FALSE}]
    \cup [kind : {"hit"}, transcript : {RawTranscript(0), RawTranscript(1)},
          topics : CachedTopicPayloads, hasSummary : BOOLEAN]

\* if (cacheResponse.ok) ... if (cacheData.cached)
IsCacheHit_Never(reply) == FALSE

IsCacheHit(reply) == reply.kind = "hit"

\* The cache response arrives (lines 481-655).
OnCacheSettled(reply) ==
    /\ pc = "cache"
    /\ CASE reply.kind = "reject" ->
              /\ error' = "cache-check-failed"
              /\ pageState' = "IDLE"
              /\ pageStateLog' = Append(pageStateLog, "IDLE")
              /\ pc' = "done"
              /\ outcome' = "cache-failed"
              /\ loadingStage' = FinallyLoadingStage(loadingStage)
              /\ takeaways' = StopLoading(takeaways)
              /\ UNCHANGED <<isRateLimitError, transcript, topics, baseTopics, usedTopicKeys,
                             selectedTopic, background, issued, limitVars,
                             authLimitReached>>
         [] IsCacheHit(reply) ->
              /\ transcript' = NormalizeTranscript(reply.transcript)
              /\ topics' = HydrateTopicsWithTranscript(ArrayOrEmpty(reply.topics), transcript')
              /\ baseTopics' = topics'
              /\ usedTopicKeys' = QuoteKeys(topics')
              /\ selectedTopic' = FirstTopic(topics')
              /\ takeaways' = IF reply.hasSummary THEN "content" ELSE "none"
              /\ pageState' = "IDLE"
              /\ pageStateLog' = pageStateLog \o <<"LOADING_CACHED", "IDLE", "IDLE">>
              /\ background' = background \cup {"load-cached-themes"} \cup
                    (IF reply.hasSummary THEN {} ELSE {"generate-cached-takeaways"})
              /\ issued' = issued \cup {"/api/video-analysis"} \cup
                    (IF reply.hasSummary THEN {} ELSE {"/api/generate-summary"})
              /\ pc' = "done"
              /\ loadingStage' = FinallyLoadingStage(loadingStage)
              /\ outcome' = "hit"
              /\ UNCHANGED <<error, isRateLimitError, limitVars>>
         [] reply.kind # "reject" /\ ~IsCacheHit(reply) /\ user = NULL ->
              /\ pc' = "limit"
              /\ issued' = issued \cup {"/api/check-limit"}
              /\ UNCHANGED <<error, isRateLimitError, pageState, pageStateLog, outcome,
                             transcript, topics, baseTopics, usedTopicKeys, selectedTopic, takeaways,
                             background, limitVars, loadingStage>>
         [] reply.kind # "reject" /\ ~IsCacheHit(reply) /\ user # NULL ->
              /\ GenerationLimitStep(pv.authLimitReached, pv.remaining)
              /\ UNCHANGED <<transcript, topics, baseTopics, usedTopicKeys, selectedTopic, background,
                             rateLimitInfo, authLimitReached, limitInFlight>>
    /\ pv' = [pv EXCEPT !.cacheData = reply]
    /\ UNCHANGED <<user, srvLimit, videoId, videoInfo, themes, selectedTheme,
                   themeTopicsMap, isLoadingThemeTopics, themeError, themeRefVars,
                   runs, dbVars, otherVars>>

\* The awaited checkRateLimit() of an anonymous miss settles (lines 641-655).
OnLimitSettled(reply) ==
    /\ pc = "limit"
    /\ authLimitReached' = AuthLimitAfter(reply)
    /\ rateLimitInfo' = RateLimitInfoAfter(reply)
    /\ pv' = [pv EXCEPT !.limitData = reply]
    /\ GenerationLimitStep(pv.authLimitReached, EffectiveRemaining(pv.remaining, reply))
    /\ UNCHANGED <<user, srvLimit, videoId, videoInfo, transcript, topics, baseTopics, usedTopicKeys,
                   selectedTopic, themes, selectedTheme, themeTopicsMap,
                   isLoadingThemeTopics, themeError, limitInFlight, themeRefVars,
                   background, runs, dbVars, otherVars>>

\* /api/transcript answers 200 only with at least one segment (it answers 404
\* for an empty transcript).
MaxSegments == 1
TranscriptOkPayloads == {RawTranscript(n) : n \in 1..MaxSegments}

\* What the /api/transcript fetch settles with.
TranscriptReplies ==
    [kind : {"reject", "http-error", "bad-json"}, transcript : {RawTranscript(0)}]
    \cup [kind : {"ok"}, transcript : TranscriptOkPayloads]

\* What the /api/video-info fetch settles with: usable data, or anything else
\* (null after its catch, a non-2xx status, a body with an error field or unparsable).
VideoInfoReplies == {"ok", "failed"}

TranscriptFailed_RejectOnly(t) == t.kind = "reject"
\* The transcript fetch rejected, answered a non-2xx status, or its body did not
\* parse (lines 670-716).
TranscriptFailed(t) == t.kind # "ok"

\* Promise.all([transcriptPromise, videoInfoPromise]) settles (lines 693-814).
OnFetchSettled(t, v) ==
    /\ pc = "fetch"
    /\ IF TranscriptFailed(t)
       THEN /\ error' = "transcript-failed"
            /\ pageState' = "IDLE"
            /\ pageStateLog' = Append(pageStateLog, "IDLE")
            /\ pc' = "done"
            /\ outcome' = "transcript-failed"
            /\ loadingStage' = FinallyLoadingStage(loadingStage)
            /\ takeaways' = StopLoading(takeaways)
            /\ UNCHANGED <<transcript, videoInfo, issued, pv>>
       ELSE /\ transcript' = NormalizeTranscript(t.transcript)
            /\ videoInfo' = IF v = "ok" THEN "info" ELSE videoInfo
            /\ pv' = [pv EXCEPT !.videoInfoReply = v, !.summaryRequest = "in-flight"]
            /\ issued' = issued \cup
                  {"/api/quick-preview", "/api/video-analysis", "/api/generate-summary"}
            /\ takeaways' = "loading"
            /\ loadingStage' = "generating"
            /\ pc' = "topics"
            /\ UNCHANGED <<error, pageState, pageStateLog, outcome>>
    /\ UNCHANGED <<user, srvLimit, isRateLimitError, videoId, topics, baseTopics, usedTopicKeys,
                   selectedTopic, themes, selectedTheme, themeTopicsMap,
                   isLoadingThemeTopics, themeError, limitVars, themeRefVars,
                   background, runs, dbVars, otherVars>>

GeneratedTopicPayloads ==
    {TopicList("generated", n) : n \in 0..MaxTopics} \cup {TopicList("not-an-array", 0)}

\* What the topic-generation fetch (/api/video-analysis) settles with.
TopicsReplies ==
    [kind : {"reject", "http-error", "429-auth", "429", "bad-json"},
     topics : {TopicList("generated", 0)}, themes : {{}}]
    \cup [kind : {"ok"}, topics : GeneratedTopicPayloads, themes : {{}, Themes}]

\* generatedTopics: hydrateTopicsWithTranscript(Array.isArray(topicsData.topics) ? ... : [], ...)
GeneratedTopics_Dropped(topicsData, t) == EmptyList

GeneratedTopics(topicsData, t) == HydrateTopicsWithTranscript(ArrayOrEmpty(topicsData), t)

\* An un-awaited checkRateLimit() is started.
OneMoreLimitCheck(n) == IF n < MaxLimitChecks THEN n + 1 ELSE n

AbortSummary_Skipped(req) == req
\* takeawaysController.abort(); await takeawaysSettledPromise
AbortSummary(req) == "aborted-settled"

\* The topic-generation request settles (lines 829-893). A 200 response whose
\* body does not parse throws at topicsRes.json(), past the abort branches.
OnTopicsSettled(reply) ==
    /\ pc = "topics"
    /\ CASE reply.kind \in {"reject", "http-error"} ->
              /\ pv' = [pv EXCEPT !.summaryRequest = AbortSummary(@)]
              /\ error' = "topics-failed"
              /\ outcome' = "topics-failed"
              /\ UNCHANGED <<isRateLimitError, limitVars>>
         [] reply.kind = "bad-json" ->
              /\ error' = "topics-failed"
              /\ outcome' = "topics-failed"
              /\ UNCHANGED <<isRateLimitError, limitVars, pv>>
         [] reply.kind = "429-auth" ->
              /\ pv' = [pv EXCEPT !.summaryRequest = AbortSummary(@)]
              /\ hasRedirectedForLimit' = TRUE
              /\ route' = "/?auth=limit"
              /\ outcome' = "topics-redirect"
              /\ UNCHANGED <<error, isRateLimitError, rateLimitInfo, authLimitReached,
                             limitInFlight>>
         [] reply.kind = "429" ->
              /\ isRateLimitError' = TRUE
              /\ limitInFlight' = OneMoreLimitCheck(limitInFlight)
              /\ pv' = [pv EXCEPT !.summaryRequest = AbortSummary(@)]
              /\ error' = "rate-limit-429"
              /\ outcome' = "topics-429"
              /\ UNCHANGED <<rateLimitInfo, authLimitReached, hasRedirectedForLimit,
                             route>>
         [] reply.kind = "ok" ->
              /\ pv' = [pv EXCEPT !.topicsData = reply.topics, !.themes = reply.themes]
              /\ UNCHANGED <<error, isRateLimitError, limitVars, outcome>>
    /\ IF reply.kind = "ok"
       THEN /\ pc' = "takeaways"
            /\ UNCHANGED <<pageState, pageStateLog, takeaways, loadingStage>>
       ELSE /\ pc' = "done"
            /\ pageState' = "IDLE"
            /\ pageStateLog' = Append(pageStateLog, "IDLE")
            /\ loadingStage' = FinallyLoadingStage(loadingStage)
            /\ takeaways' = StopLoading(takeaways)
    /\ UNCHANGED <<user, srvLimit, videoId, videoInfo, transcript, topics, baseTopics, usedTopicKeys,
                   selectedTopic, themes, selectedTheme, themeTopicsMap,
                   isLoadingThemeTopics, themeError, themeRefVars, issued, background,
                   runs, dbVars, otherVars>>

\* What the summary fetch (/api/generate-summary) settles with: a summary, a
\* 200 without one, a rejection, the abort of its 60 s timeout, a non-2xx
\* status, a 200 whose body does not parse.
TakeawaysReplies == {"ok", "ok-empty", "reject", "timeout", "http-error", "bad-json"}

TakeawaysAfter_Silent(reply) == IF reply = "ok" THEN "content" ELSE "none"
\* The takeaways tab after the summary result was processed and the finally block ran.
TakeawaysAfter(reply) ==
    CASE reply = "ok" -> "content"
      [] reply = "ok-empty" -> "none"
      [] OTHER -> "error"

SavedVideoInfo_NoFallback(reply) == IF reply = "ok" THEN "info" ELSE "null"
\* videoInfo: fetchedVideoInfo || { title, author: 'Unknown', duration: 0, thumbnail: '' }
SavedVideoInfo(reply) == IF reply = "ok" THEN "info" ELSE "placeholder"

\* The summary request settles after the topics did (lines 893-1076): the batched
\* view update, then the background operations. A 200 summary response whose body
\* does not parse throws before the update.
OnTakeawaysSettled(reply) ==
    /\ pc = "takeaways"
    /\ IF reply = "bad-json"
       THEN /\ error' = "summary-parse-failed"
            /\ outcome' = "summary-threw"
            /\ takeaways' = StopLoading(takeaways)
            /\ UNCHANGED <<topics, baseTopics, usedTopicKeys, selectedTopic, themes, limitInFlight,
                           background, issued>>
       ELSE /\ topics' = GeneratedTopics(pv.topicsData, transcript)
            /\ baseTopics' = topics'
            /\ usedTopicKeys' = QuoteKeys(topics')
            /\ selectedTopic' = FirstTopic(topics')
            /\ themes' = pv.themes
            /\ takeaways' = TakeawaysAfter(reply)
            /\ limitInFlight' = OneMoreLimitCheck(limitInFlight)
            /\ background' = background \cup {"save-complete-analysis", "generate-questions"}
            /\ issued' = issued \cup {"/api/check-limit", "/api/save-analysis",
                                      "/api/suggested-questions"}
            /\ outcome' = "analyzed"
            /\ UNCHANGED error
    /\ pv' = [pv EXCEPT !.summary = IF reply \in {"reject", "timeout", "http-error"}
                                    THEN "failed"   \* takeawaysGenerationError is set
                                    ELSE reply,
                        !.summaryRequest = "settled",
                        !.savedVideoInfo = IF reply = "bad-json" THEN @
                                           ELSE SavedVideoInfo(pv.videoInfoReply)]
    /\ pageState' = "IDLE"
    /\ pageStateLog' = Append(pageStateLog, "IDLE")
    /\ loadingStage' = FinallyLoadingStage("processing")
    /\ pc' = "done"
    /\ UNCHANGED <<user, srvLimit, isRateLimitError, videoId, videoInfo,
                   transcript, selectedTheme, themeTopicsMap, isLoadingThemeTopics,
                   themeError, rateLimitInfo, authLimitReached, hasRedirectedForLimit,
                   route, themeRefVars, runs, dbVars, otherVars>>

\* What a background operation's fetch settles with.
\* "update-fail": the operation's own request went through and the
\* /api/update-video-analysis request it then awaits failed.
BackgroundReplies == {"ok", "fail", "update-fail"}

BackgroundFailureError_Shown(op, current) == "background-failed"
\* The page's error after an operation's error handler ran: the handlers log
\* (and the one of save-complete-analysis shows a toast).
BackgroundFailureError(op, current) == current

\* A background operation settles; its failure is logged.
BackgroundSettled(op, reply) ==
    /\ op \in background
    /\ reply = "update-fail" => op \in {"generate-cached-takeaways", "generate-questions"}
    /\ background' = background \ {op}
    /\ error' = IF reply = "ok" THEN error ELSE BackgroundFailureError(op, error)
    /\ themes' = IF op = "load-cached-themes" /\ reply = "ok" THEN Themes ELSE themes
    /\ takeaways' =
         IF op = "generate-cached-takeaways"
         THEN IF reply = "fail" THEN "error" ELSE "content"
         ELSE takeaways
    /\ UNCHANGED <<user, srvLimit, pageState, isRateLimitError, videoId, videoInfo,
                   transcript, topics, baseTopics, usedTopicKeys, selectedTopic, selectedTheme,
                   themeTopicsMap, isLoadingThemeTopics, themeError, limitVars,
                   themeRefVars, pc, pv, issued, pageStateLog, loadingStage, outcome, runs,
                   dbVars, otherVars>>

(***************************************************************************)
(* handleThemeSelect: the click, and the arrival of a theme request's      *)
(* response.                                                               *)
(***************************************************************************)
\* The ThemeSelector is rendered (line 1643).
ThemeSelectorVisible ==
    themes # {} \/ isLoadingThemeTopics \/ themeError # NULL \/ selectedTheme # NULL

\* resetToDefault(options) with the baseTopics the calling closure holds; the
\* theme error is set by the caller.
ResetToDefault(closureBaseTopics) ==
    /\ selectedTheme' = NULL
    /\ selectedThemeRef' = NULL
    /\ topics' = closureBaseTopics
    /\ selectedTopic' = NoTopic
    /\ isLoadingThemeTopics' = FALSE
    /\ activeThemeRequestId' = 0
    /\ usedTopicKeys' = QuoteKeys(closureBaseTopics)

\* setTopics(themedTopics) and what follows it (lines 1356-1363).
ApplyThemedTopics(themedTopics) ==
    /\ topics' = themedTopics
    /\ selectedTopic' = FirstTopic(themedTopics)
    /\ themeError' = IF themedTopics.n > 0 THEN NULL ELSE EMPTY_THEME_MESSAGE

\* The guard of a response's effects: selectedThemeRef.current === normalizedTheme.
IsCurrentTheme_Always(t) == TRUE

IsCurrentTheme(t) == selectedThemeRef = t

\* nextUsedKeys (lines 1295-1301): the keys the handler's closure holds and
\* those of the response's topics.
NextUsedKeys(closureKeys, themedTopics) == closureKeys \cup QuoteKeys(themedTopics)

\* handleThemeSelect(themeLabel) up to its first await or its return.
HandleThemeSelect(t) ==
    /\ videoId # NULL
    /\ route = "/analyze"
    /\ ThemeSelectorVisible
    /\ t \in themes \cup {NULL}
    /\ IF t = NULL \/ selectedTheme = t
       THEN /\ ResetToDefault(baseTopics)
            /\ themeError' = NULL
            /\ UNCHANGED <<themeTopicsMap, nextThemeRequestId, pendingThemeRequests,
                           themeInFlight, issuedThemeIds>>
       ELSE LET known == themeTopicsMap[t] # NoList
                themedTopics == HydrateTopicsWithTranscript(themeTopicsMap[t], transcript)
            IN  /\ selectedTheme' = t
                /\ selectedThemeRef' = t
                /\ UNCHANGED usedTopicKeys
                /\ CASE known ->
                          /\ themeTopicsMap' = [themeTopicsMap EXCEPT ![t] = themedTopics]
                          /\ activeThemeRequestId' = 0
                          /\ isLoadingThemeTopics' = FALSE
                          /\ ApplyThemedTopics(themedTopics)
                          /\ UNCHANGED <<nextThemeRequestId, pendingThemeRequests,
                                         themeInFlight, issuedThemeIds>>
                     [] ~known /\ pendingThemeRequests[t] # 0 ->
                          /\ activeThemeRequestId' = pendingThemeRequests[t]
                          /\ isLoadingThemeTopics' = TRUE
                          /\ themeError' = NULL
                          /\ selectedTopic' = NoTopic
                          /\ UNCHANGED <<topics, themeTopicsMap, nextThemeRequestId,
                                         pendingThemeRequests, themeInFlight,
                                         issuedThemeIds>>
                     [] ~known /\ pendingThemeRequests[t] = 0 ->
                          /\ nextThemeRequestId < MaxThemeRequests
                          /\ nextThemeRequestId' = nextThemeRequestId + 1
                          /\ pendingThemeRequests' =
                               [pendingThemeRequests EXCEPT ![t] = nextThemeRequestId']
                          /\ activeThemeRequestId' = nextThemeRequestId'
                          /\ isLoadingThemeTopics' = TRUE
                          /\ themeError' = NULL
                          /\ selectedTopic' = NoTopic
                          /\ themeInFlight' = themeInFlight \cup
                               {[id |-> nextThemeRequestId', theme |-> t,
                                 baseTopics |-> baseTopics,
                                 usedTopicKeys |-> usedTopicKeys]}
                          /\ issuedThemeIds' = issuedThemeIds \cup {nextThemeRequestId'}
                          /\ UNCHANGED <<topics, themeTopicsMap>>
    /\ UNCHANGED <<user, srvLimit, pageState, error, isRateLimitError, videoId, videoInfo,
                   transcript, baseTopics, takeaways, themes, limitVars, discarded,
                   runVars, dbVars, otherVars>>

\* What a theme request's fetch settles with.
ThemeReplies(t) ==
    [kind : {"error", "abort"}, topics : {TopicList(t, 0)}]
    \cup [kind : {"ok"},
          topics : {TopicList(t, n) : n \in 0..MaxTopics} \cup {TopicList("not-an-array", 0)}]

AllThemeReplies == UNION {ThemeReplies(t) : t \in Themes}

\* The finally block of a theme request (lines 1325-1335), given the reference
\* the blocks before it left. The first leaves the loading indicator alone.
ThemeRequestDone_KeepsLoading(req, refNow, activeNow) ==
    /\ UNCHANGED isLoadingThemeTopics
    /\ activeThemeRequestId' = IF activeNow = req.id /\ refNow = req.theme THEN 0 ELSE activeNow

ThemeRequestDone(req, refNow, activeNow) ==
    IF activeNow = req.id /\ refNow = req.theme
    THEN /\ isLoadingThemeTopics' = FALSE
         /\ activeThemeRequestId' = 0
    ELSE /\ UNCHANGED isLoadingThemeTopics
         /\ activeThemeRequestId' = activeNow

\* The response of theme request req arrives (lines 1282-1363).
ThemeResponse(req, reply) ==
    /\ req \in themeInFlight
    /\ reply \in ThemeReplies(req.theme)
    /\ themeInFlight' = themeInFlight \ {req}
    /\ pendingThemeRequests' = [pendingThemeRequests EXCEPT ![req.theme] = 0]
    /\ discarded' = IF selectedThemeRef # req.theme /\ reply.kind # "abort"
                    THEN discarded \cup {req.theme} ELSE discarded
    /\ CASE reply.kind = "ok" ->
              LET themedTopics ==
                      HydrateTopicsWithTranscript(ArrayOrEmpty(reply.topics), transcript)
              IN  /\ themeTopicsMap' = [themeTopicsMap EXCEPT ![req.theme] = themedTopics]
                  /\ usedTopicKeys' = NextUsedKeys(req.usedTopicKeys, themedTopics)
                  /\ ThemeRequestDone(req, selectedThemeRef, activeThemeRequestId)
                  /\ IF IsCurrentTheme(req.theme)
                     THEN ApplyThemedTopics(themedTopics)
                     ELSE UNCHANGED <<topics, selectedTopic, themeError>>
                  /\ UNCHANGED <<selectedTheme, selectedThemeRef>>
         [] reply.kind = "error" ->
              /\ IF IsCurrentTheme(req.theme)
                 THEN /\ ResetToDefault(req.baseTopics)
                      /\ themeError' = "theme-failed"
                 ELSE /\ ThemeRequestDone(req, selectedThemeRef, activeThemeRequestId)
                      /\ UNCHANGED <<selectedTheme, selectedThemeRef, topics,
                                     selectedTopic, themeError, usedTopicKeys>>
              /\ UNCHANGED themeTopicsMap
         [] reply.kind = "abort" ->
              /\ ThemeRequestDone(req, selectedThemeRef, activeThemeRequestId)
              /\ UNCHANGED <<selectedTheme, selectedThemeRef, topics, selectedTopic,
                             themeError, themeTopicsMap, usedTopicKeys>>
    /\ UNCHANGED <<user, srvLimit, pageState, error, isRateLimitError, videoId, videoInfo,
                   transcript, baseTopics, takeaways, themes, limitVars,
                   nextThemeRequestId, issuedThemeIds, runVars, dbVars, otherVars>>

(***************************************************************************)
(* URL texts and lib/utils: extractVideoId, detectPlatform.                *)
(* A text is a sequence of tokens: host names, separators and words, each  *)
(* standing for the characters it is written with.                         *)
(***************************************************************************)
\* Characters the YouTube capture group [^"&?\/\s] refuses.
Refused(t) == t \in {"/", "?", "&", "https://"}

\* The number of characters of a token.
TokLen(t) ==
    CASE t \in {"/", "?", "&", "=", "v", "e", "t", "u", "a", "b"} -> 1
      [] t \in {"m.", "av"} -> 2
      [] t \in {"not", "101"} -> 3
      [] t \in {"www.", "list"} -> 4
      [] t \in {"watch", "embed", "video"} -> 5
      [] t = "b23.tv" -> 6
      [] t \in {"youtu.be", "https://"} -> 8
      [] t \in {"youtube.com", "example.com", "ytAAAAAAAA1", "ccccccccccc"} -> 11
      [] OTHER -> 12

\* The characters of the run of accepted characters that starts at token p.
RECURSIVE RunLen(_, _)
RunLen(s, p) ==
    IF p > Len(s) \/ Refused(s[p]) THEN 0 ELSE TokLen(s[p]) + RunLen(s, p + 1)

\* ([^"&?\/\s]{11}) at token p: the eleven characters, NULL when fewer follow.
Capture11(s, p) ==
    IF RunLen(s, p) < 11 THEN NULL
    ELSE IF TokLen(s[p]) = 11 THEN s[p]
    ELSE "eleven-characters"

At(s, p) == IF p \in 1..Len(s) THEN s[p] ELSE "end"

Largest(S) == CHOOSE x \in S : \A y \in S : y <= x
Smallest(S) == CHOOSE x \in S : \A y \in S : x <= y

\* youtubeRegex tried at token i: the capture, NULL when it does not match there.
YoutubeAt(s, i) ==
    IF At(s, i) = "youtu.be" /\ At(s, i + 1) = "/" THEN Capture11(s, i + 2)
    ELSE IF ~(At(s, i) = "youtube.com" /\ At(s, i + 1) = "/") THEN NULL
    ELSE LET slashes == {x \in (i + 3)..Len(s) : s[x] = "/"}
             \* [^\/]+\/.+\/ : up to the first slash, then up to the last one
             \* a capture follows
             ks == IF At(s, i + 2) \in {"/", "end"} \/ slashes = {} THEN {}
                   ELSE {k \in slashes : k >= Smallest(slashes) + 2
                                          /\ Capture11(s, k + 1) # NULL}
             \* .*[?&]v= : the last one a capture follows
             js == {j \in (i + 2)..Len(s) :
                       /\ s[j] \in {"?", "&"}
                       /\ At(s, j + 1) = "v"
                       /\ At(s, j + 2) = "="
                       /\ Capture11(s, j + 3) # NULL}
         IN  IF ks # {} THEN Capture11(s, Largest(ks) + 1)
             ELSE IF At(s, i + 2) \in {"v", "e", "embed"} /\ At(s, i + 3) = "/"
                     /\ Capture11(s, i + 4) # NULL
                  THEN Capture11(s, i + 4)
             ELSE IF js # {} THEN Capture11(s, Largest(js) + 3)
             ELSE NULL

BvTokens == {"BV1"}
DigitTokens == {"101"}

\* (BV[a-zA-Z0-9]+) and (\d+) at token p.
BvCapture(s, p) == IF At(s, p) \in BvTokens THEN s[p] ELSE NULL
DigitCapture(s, p) == IF At(s, p) \in DigitTokens THEN s[p] ELSE NULL

VideoPathAt(s, i) ==
    At(s, i) = "bilibili.com" /\ At(s, i + 1) = "/" /\ At(s, i + 2) = "video"
        /\ At(s, i + 3) = "/"

\* bilibiliPatterns, in their order.
BilibiliBvAt(s, i) == IF VideoPathAt(s, i) THEN BvCapture(s, i + 4) ELSE NULL
BilibiliAvAt(s, i) ==
    IF VideoPathAt(s, i) /\ At(s, i + 4) = "av" THEN DigitCapture(s, i + 5) ELSE NULL
ShortLinkAt(s, i) ==
    IF At(s, i) = "b23.tv" /\ At(s, i + 1) = "/" THEN BvCapture(s, i + 2) ELSE NULL
MobileAt(s, i) == IF At(s, i) = "m." THEN BilibiliBvAt(s, i + 1) ELSE NULL

\* A pattern tried at token i.
MatchAt(pattern, s, i) ==
    CASE pattern = "youtubeRegex" -> YoutubeAt(s, i)
      [] pattern = "bilibili-bv" -> BilibiliBvAt(s, i)
      [] pattern = "bilibili-av" -> BilibiliAvAt(s, i)
      [] pattern = "b23" -> ShortLinkAt(s, i)
      [] pattern = "mobile" -> MobileAt(s, i)

\* url.match(regex)[1]: the capture of the leftmost match, NULL without a match.
Leftmost(s, pattern) ==
    LET is == {i \in 1..Len(s) : MatchAt(pattern, s, i) # NULL}
    IN  IF is = {} THEN NULL ELSE MatchAt(pattern, s, Smallest(is))

\* extractBilibiliVideoId(url) of lib/bilibili-client, the loop extractVideoId repeats.
extractBilibiliVideoId(s) ==
    IF Leftmost(s, "bilibili-bv") # NULL THEN Leftmost(s, "bilibili-bv")
    ELSE IF Leftmost(s, "bilibili-av") # NULL THEN Leftmost(s, "bilibili-av")
    ELSE IF Leftmost(s, "b23") # NULL THEN Leftmost(s, "b23")
    ELSE Leftmost(s, "mobile")

\* extractVideoId(url) of lib/utils.
extractVideoId(s) ==
    IF Leftmost(s, "youtubeRegex") # NULL THEN Leftmost(s, "youtubeRegex")
    ELSE extractBilibiliVideoId(s)

Includes(s, t) == \E i \in 1..Len(s) : s[i] = t

\* detectPlatform(url) of lib/utils.
detectPlatform(s) ==
    IF Includes(s, "youtube.com") \/ Includes(s, "youtu.be") THEN "youtube"
    ELSE IF Includes(s, "bilibili.com") \/ Includes(s, "b23.tv") THEN "bilibili"
    ELSE NULL

\* The URLs tried: the supported shapes of both platforms and URLs of other
\* domains, each under every prefix and with every tail.
UrlPrefixes == {<<>>, <<"https://">>, <<"https://", "www.">>}

UrlTails ==
    {<<>>, <<"/">>, <<"&", "t", "=", "101">>,
     <<"&", "list", "=", "a", "/", "b", "/", "ccccccccccc">>}

UrlBody(body, host, id) == [body |-> body, host |-> host, id |-> id]

SupportedBodies ==
    {UrlBody(<<"youtube.com", "/", "watch", "?", "v", "=", "ytAAAAAAAA1">>,
             "youtube", "ytAAAAAAAA1"),
     UrlBody(<<"youtube.com", "/", "watch", "?", "t", "=", "101", "&", "v", "=",
               "ytAAAAAAAA1">>, "youtube", "ytAAAAAAAA1"),
     UrlBody(<<"youtu.be", "/", "ytAAAAAAAA1">>, "youtube", "ytAAAAAAAA1"),
     UrlBody(<<"youtube.com", "/", "embed", "/", "ytAAAAAAAA1">>, "youtube", "ytAAAAAAAA1"),
     UrlBody(<<"bilibili.com", "/", "video", "/", "BV1">>, "bilibili", "BV1"),
     UrlBody(<<"bilibili.com", "/", "video", "/", "BV1", "?", "u", "=", "youtube.com">>,
             "bilibili", "BV1"),
     UrlBody(<<"bilibili.com", "/", "video", "/", "av", "101">>, "bilibili", "101"),
     UrlBody(<<"b23.tv", "/", "BV1">>, "bilibili", "BV1"),
     UrlBody(<<"m.", "bilibili.com", "/", "video", "/", "BV1">>, "bilibili", "BV1")}

\* URLs whose domain is neither platform's: example.com, notyoutube.com,
\* notbilibili.com.
ForeignBodies ==
    {UrlBody(<<"example.com">>, "other", NULL),
     UrlBody(<<"example.com", "/", "watch", "?", "v", "=", "ytAAAAAAAA1">>, "other", NULL),
     UrlBody(<<"example.com", "/", "video", "/", "BV1">>, "other", NULL),
     UrlBody(<<"example.com", "/", "?", "u", "=", "youtube.com", "/", "watch", "?", "v",
               "=", "ytAAAAAAAA1">>, "other", NULL),
     UrlBody(<<"example.com", "/", "?", "u", "=", "youtu.be", "/", "ytAAAAAAAA1">>,
             "other", NULL),
     UrlBody(<<"example.com", "/", "b23.tv", "/", "BV1">>, "other", NULL),
     UrlBody(<<"not", "youtube.com", "/", "watch", "?", "v", "=", "ytAAAAAAAA1">>,
             "other", NULL),
     UrlBody(<<"not", "bilibili.com", "/", "video", "/", "BV1">>, "other", NULL)}

\* URLs of a platform's domain that name no video.
BareBodies ==
    {UrlBody(<<"youtube.com", "/">>, "youtube", NULL),
     UrlBody(<<"bilibili.com", "/", "video", "/">>, "bilibili", NULL)}

UrlCases ==
    {[text |-> p \o b.body \o t, host |-> b.host, id |-> b.id,
      supported |-> b \in SupportedBodies] :
        p \in UrlPrefixes, b \in SupportedBodies \cup ForeignBodies \cup BareBodies,
        t \in UrlTails}

NoUrlCase == [text |-> <<>>, host |-> "other", id |-> NULL, supported |-> FALSE]

InitLib ==
    /\ url = NoUrlCase
    /\ extracted = "unset"

(***************************************************************************)
(* The URL prelude of the API routes /api/transcript, /api/video-info and  *)
(* /api/check-video-cache.                                                 *)
(***************************************************************************)
\* Request bodies: text that is not JSON, JSON null, JSON without a url
\* property, and JSON whose url is "", 0, a non-zero number, an array, an array
\* holding a platform's host name, or a URL text.
BodyKinds ==
    {"unparsable", "null", "no-url", "empty-url", "zero-url", "number-url", "array-url",
     "host-array-url"}

Requests ==
    {[body |-> b, url |-> NoUrlCase] : b \in BodyKinds}
        \cup {[body |-> "text", url |-> u] : u \in UrlCases}

NoRequest == [body |-> "none", url |-> NoUrlCase]
NotAnswered == [route |-> "none", status |-> 0, calls |-> 0]

\* const { url } = await request.json() throws: no JSON, or a null to destructure.
JsonThrows(req) == req.body \in {"unparsable", "null"}

\* !url
UrlFalsy(req) == req.body \in {"no-url", "empty-url", "zero-url"}

\* detectPlatform(url): url.includes is no function of a number; of an array it
\* looks for an element.
DetectThrows(req) == req.body = "number-url"
PlatformOf(req) ==
    CASE req.body = "array-url" -> NULL
      [] req.body = "host-array-url" -> "youtube"
      [] OTHER -> detectPlatform(req.url.text)

\* extractVideoId(url): url.match is no function of an array.
ExtractThrows(req) == req.body = "host-array-url"
VideoIdOf(req) == extractVideoId(req.url.text)

\* The handlers' common prelude: the status it answers, 0 when it lets the
\* request through. What is thrown is caught by the handler's outer catch.
Prelude(req) ==
    IF JsonThrows(req) THEN 500
    ELSE IF UrlFalsy(req) THEN 400
    ELSE IF DetectThrows(req) THEN 500
    ELSE IF PlatformOf(req) = NULL THEN 400
    ELSE IF ExtractThrows(req) THEN 500
    ELSE IF VideoIdOf(req) = NULL THEN 400
    ELSE 0

Answer(api, status, calls) == [route |-> api, status |-> status, calls |-> calls]

\* The answers of a handler: the prelude's, made before any call, or one of
\* those the rest of the handler gives.
Answers(api, req, Rest) ==
    IF Prelude(req) # 0 THEN {Answer(api, Prelude(req), 0)} ELSE Rest

\* /api/transcript past the prelude: Bilibili asks the view API first; YouTube
\* answers 500 without a call when the API key is not configured.
TranscriptRest(req) ==
    IF PlatformOf(req) = "bilibili"
    THEN {Answer("transcript", st, 1) : st \in {200, 404, 500}}
    ELSE {Answer("transcript", 500, 0)}
             \cup {Answer("transcript", st, 1) : st \in {200, 400, 404, 500}}

\* /api/video-info past the prelude: every failure of a call is answered with
\* minimal info.
VideoInfoRest(req) == {Answer("video-info", 200, 1)}

\* /api/check-video-cache past the prelude: the database is asked.
CheckVideoCacheRest(req) == {Answer("check-video-cache", st, 1) : st \in {200, 500}}

InitRoute ==
    /\ request = NoRequest
    /\ response = NotAnswered

\* A request arrives.
Receive(req) ==
    /\ request' = req
    /\ response' = NotAnswered
    /\ UNCHANGED exceptRoute

Handle(answers) ==
    /\ request # NoRequest
    /\ response = NotAnswered
    /\ response' \in answers
    /\ UNCHANGED <<request, exceptRoute>>

TranscriptHandler == Handle(Answers("transcript", request, TranscriptRest(request)))
VideoInfoHandler == Handle(Answers("video-info", request, VideoInfoRest(request)))
CheckVideoCacheHandler ==
    Handle(Answers("check-video-cache", request, CheckVideoCacheRest(request)))

(***************************************************************************)
(* The playback command protocol and Play All: the page's request          *)
(* functions and the Bilibili player's effects.                            *)
(***************************************************************************)
MaxCommands == 3
MaxPlayTopics == 2
MaxTime == 4

\* Playback time is counted in ticks of the player's interval.
PlaySegments == {[start |-> 0, end |-> 1], [start |-> 2, end |-> 3]}

RECURSIVE SeqsUpTo(_, _)
SeqsUpTo(S, n) ==
    IF n = 0 THEN {<<>>}
    ELSE SeqsUpTo(S, n - 1)
             \cup {Append(q, x) : q \in {r \in SeqsUpTo(S, n - 1) : Len(r) = n - 1}, x \in S}

TopicLists == SeqsUpTo(PlaySegments, MaxPlayTopics)
SeekTimes == {0, 3}

NoCommand == [id |-> 0, type |-> "none", arg |-> 0]

MaxCitations == 2

\* The citations of a PLAY_CITATIONS command, in the order of the chat answer.
CitationLists == SeqsUpTo(PlaySegments, MaxCitations)

\* No citation reel is the selected topic.
NoReel == [id |-> 0, segments |-> <<>>]
CommandIds == 1..(MaxCommands + 1)

InitPlayer ==
    /\ playbackCommand = NoCommand
    /\ issuedCommands = 0
    /\ applied = [c \in CommandIds |-> 0]
    /\ cleared = {}
    /\ commandTimer = 0
    /\ playerReady = FALSE
    /\ playerTopics = <<>>
    /\ isPlaying = FALSE
    /\ currentTime = 0
    /\ isPlayingAll = FALSE
    /\ playAllIndex = 0
    /\ seekTimers = {}
    /\ started = {}
    /\ playAllEnded = FALSE
    /\ citationReel = NoReel
    /\ citationReelSegmentIndex = 0
    /\ reelLog = <<>>
    /\ reelEnded = FALSE

\* setSelectedTopic(topic) and, when the topic changed, the effect that sets
\* citationReelSegmentIndex to 0.
SelectTopic(reel) ==
    /\ citationReel' = reel
    /\ citationReelSegmentIndex' = IF reel = citationReel THEN citationReelSegmentIndex ELSE 0
    /\ reelLog' = IF reel = citationReel THEN reelLog
                  ELSE IF reel = NoReel THEN <<>> ELSE <<0>>
    /\ reelEnded' = IF reel = citationReel THEN reelEnded ELSE FALSE

\* setPlaybackCommand(command), and the executor effect of the render that
\* follows: the pending timeout is cleared, a new one set if the player is ready.
SetPlaybackCommand(type, arg) ==
    /\ issuedCommands < MaxCommands
    /\ issuedCommands' = issuedCommands + 1
    /\ playbackCommand' = [id |-> issuedCommands + 1, type |-> type, arg |-> arg]
    /\ commandTimer' = IF playerReady THEN issuedCommands + 1 ELSE 0
    /\ UNCHANGED <<applied, cleared>>

\* handleTimestampClick(seconds): Play All is reset, requestSeek(seconds).
HandleTimestampClick(seconds) ==
    /\ SetPlaybackCommand("SEEK", seconds)
    /\ isPlayingAll' = FALSE
    /\ playAllIndex' = 0
    /\ \E withinHighlight \in BOOLEAN :
          SelectTopic(IF withinHighlight THEN citationReel ELSE NoReel)
    /\ UNCHANGED <<playerReady, playerTopics, isPlaying, currentTime, seekTimers, started,
                   playAllEnded, exceptPlayer>>

\* A PLAY_CITATIONS command is set as the playbackCommand.
RequestPlayCitations(citations) ==
    /\ SetPlaybackCommand("PLAY_CITATIONS", citations)
    /\ UNCHANGED <<playerReady, playerTopics, isPlaying, currentTime, playAllVars, reelVars,
                   exceptPlayer>>

\* handleTopicSelect(topic) from a click: Play All is reset, requestPlayTopic(topic).
HandleTopicSelect(k) ==
    /\ k \in 1..Len(playerTopics)
    /\ SetPlaybackCommand("PLAY_TOPIC", k)
    /\ isPlayingAll' = FALSE
    /\ playAllIndex' = 0
    /\ SelectTopic(NoReel)
    /\ UNCHANGED <<playerReady, playerTopics, isPlaying, currentTime, seekTimers, started,
                   playAllEnded, exceptPlayer>>

\* The Play All effect, run after a render that changed isPlayingAll,
\* playAllIndex or playerReady: it sets a timeout that seeks to the topic.
PlayAllEffect(playingAll, index, ready) ==
    IF playingAll /\ ready /\ index + 1 \in 1..Len(playerTopics)
    THEN seekTimers \cup {index} ELSE seekTimers

\* handleTogglePlayAll(): stop with a PAUSE command, or requestPlayAll().
HandleTogglePlayAll ==
    /\ IF isPlayingAll
       THEN /\ SetPlaybackCommand("PAUSE", 0)
            /\ isPlayingAll' = FALSE
            /\ playAllIndex' = 0
            /\ UNCHANGED <<seekTimers, started, playAllEnded, reelVars>>
       ELSE /\ Len(playerTopics) > 0
            /\ SelectTopic(NoReel)
            /\ SetPlaybackCommand("PLAY_ALL", 0)
            /\ isPlayingAll' = TRUE
            /\ playAllIndex' = 0
            /\ started' = {}
            /\ playAllEnded' = FALSE
            /\ seekTimers' = PlayAllEffect(TRUE, 0, playerReady)
    /\ UNCHANGED <<playerReady, playerTopics, isPlaying, currentTime, exceptPlayer>>

\* initializePlayer(), 100 ms after the player mounted; the executor effect and
\* the Play All effect run in the render that follows.
InitializePlayer ==
    /\ ~playerReady
    /\ playerReady' = TRUE
    /\ commandTimer' = playbackCommand.id
    /\ seekTimers' = PlayAllEffect(isPlayingAll, playAllIndex, TRUE)
    /\ UNCHANGED <<playbackCommand, issuedCommands, applied, cleared, playerTopics,
                   isPlaying, currentTime, isPlayingAll, playAllIndex, started,
                   playAllEnded, reelVars, exceptPlayer>>

CommandApplies(cmd) ==
    CASE cmd.type = "PLAY_ALL" -> Len(playerTopics) > 0
      [] cmd.type = "PLAY_CITATIONS" -> Len(cmd.arg) > 0
      [] OTHER -> TRUE

\* executeCommand(), when the 50 ms timeout fires: the command is applied and
\* onCommandExecuted() clears it. Applying PLAY_TOPIC calls onTopicSelect(topic),
\* whose requestPlayTopic(topic) sets one more command; the setPlaybackCommand(null)
\* of the same batch replaces it.
ExecuteCommand ==
    LET cmd == playbackCommand
        playsReel == cmd.type = "PLAY_CITATIONS" /\ Len(cmd.arg) > 0
        again == cmd.type = "PLAY_TOPIC" \/ playsReel
    IN  /\ commandTimer # 0
        /\ commandTimer' = 0
        /\ playbackCommand' = NoCommand
        /\ applied' = IF CommandApplies(cmd)
                      THEN [applied EXCEPT ![cmd.id] = @ + 1] ELSE applied
        /\ issuedCommands' = IF again THEN issuedCommands + 1 ELSE issuedCommands
        /\ cleared' = cleared \cup {cmd.id}
                          \cup (IF again THEN {issuedCommands + 1} ELSE {})
        /\ currentTime' =
               CASE cmd.type = "SEEK" -> cmd.arg
                 [] cmd.type = "PLAY_TOPIC" -> playerTopics[cmd.arg].start
                 [] cmd.type = "PLAY_ALL" /\ Len(playerTopics) > 0 -> playerTopics[1].start
                 [] playsReel -> cmd.arg[1].start
                 [] OTHER -> currentTime
        /\ isPlaying' =
               CASE cmd.type \in {"PLAY_TOPIC", "PLAY"} -> TRUE
                 [] cmd.type = "PLAY_ALL" /\ Len(playerTopics) > 0 -> TRUE
                 [] playsReel -> TRUE
                 [] cmd.type = "PAUSE" -> FALSE
                 [] OTHER -> isPlaying
        /\ isPlayingAll' = IF again THEN FALSE ELSE isPlayingAll
        /\ playAllIndex' = IF again /\ isPlayingAll THEN 0 ELSE playAllIndex
        /\ started' = IF cmd.type = "PLAY_ALL" /\ Len(playerTopics) > 0
                         /\ isPlayingAll /\ playAllIndex = 0
                      THEN started \cup {0} ELSE started
        /\ CASE playsReel -> SelectTopic([id |-> cmd.id, segments |-> cmd.arg])
             [] cmd.type = "PLAY_TOPIC" -> SelectTopic(NoReel)
             [] cmd.type = "PLAY_ALL" /\ Len(playerTopics) > 0 -> SelectTopic(NoReel)
             [] OTHER -> UNCHANGED reelVars
        /\ UNCHANGED <<playerReady, playerTopics, seekTimers, playAllEnded, exceptPlayer>>

\* The Play All effect's timeout fires: seek to the topic's segment and play.
SeekTimeout(i) ==
    /\ i \in seekTimers
    /\ seekTimers' = seekTimers \ {i}
    /\ currentTime' = playerTopics[i + 1].start
    /\ isPlaying' = TRUE
    /\ started' = IF isPlayingAll /\ playAllIndex = i THEN started \cup {i} ELSE started
    /\ UNCHANGED <<commandVars, playerReady, playerTopics, isPlayingAll, playAllIndex,
                   playAllEnded, reelVars, exceptPlayer>>

\* The time interval's callback while playing: time advances; in Play All
\* mode the end of the current topic's segment moves on to the next topic, or
\* ends Play All after the last one.
Tick ==
    LET newTime == currentTime + 1
        atEnd == /\ isPlayingAll
                 /\ playAllIndex + 1 \in 1..Len(playerTopics)
                 /\ newTime >= playerTopics[playAllIndex + 1].end
        isLastTopic == playAllIndex >= Len(playerTopics) - 1
    IN  /\ isPlaying
        /\ currentTime < MaxTime
        /\ currentTime' = newTime
        /\ IF atEnd /\ isLastTopic
           THEN /\ isPlayingAll' = FALSE
                /\ isPlaying' = FALSE
                /\ playAllEnded' = TRUE
                /\ UNCHANGED <<playAllIndex, seekTimers>>
           ELSE IF atEnd
           THEN /\ playAllIndex' = playAllIndex + 1
                /\ seekTimers' = PlayAllEffect(TRUE, playAllIndex + 1, playerReady)
                /\ UNCHANGED <<isPlayingAll, isPlaying, playAllEnded>>
           ELSE UNCHANGED <<isPlayingAll, isPlaying, playAllEnded, playAllIndex, seekTimers>>
        /\ UNCHANGED <<commandVars, playerReady, playerTopics, started, reelVars,
                       exceptPlayer>>

\* currentTime >= currentSegment.end
SegmentEnded_Always(time, segment) == TRUE

SegmentEnded(time, segment) == time >= segment.end

\* The callback of the citation reel monitor's interval, when it finds the end
\* of the current segment reached: the next segment, or the pause after the last.
MonitorCitationReel ==
    LET segments == citationReel.segments
        currentSegment == segments[citationReelSegmentIndex + 1]
        nextIndex == citationReelSegmentIndex + 1
    IN  /\ citationReel # NoReel
        /\ isPlaying
        /\ ~isPlayingAll
        /\ citationReelSegmentIndex + 1 \in DOMAIN segments
        /\ SegmentEnded(currentTime, currentSegment)
        /\ IF citationReelSegmentIndex < Len(segments) - 1
           THEN /\ citationReelSegmentIndex' = nextIndex
                /\ currentTime' = segments[nextIndex + 1].start
                /\ reelLog' = Append(reelLog, nextIndex)
                /\ UNCHANGED <<isPlaying, reelEnded>>
           ELSE /\ isPlaying' = FALSE
                /\ citationReelSegmentIndex' = 0
                /\ reelEnded' = TRUE
                /\ UNCHANGED <<currentTime, reelLog>>
        /\ UNCHANGED <<commandVars, playerReady, playerTopics, playAllVars, citationReel,
                       exceptPlayer>>

(***************************************************************************)
(* Linking the pending video to the account after sign-in:                 *)
(* checkPendingVideoLink and the effect that starts it.                    *)
(***************************************************************************)
MaxLinkCalls == 5

MaxLinkRetries == 3
RetryDelayStep == 1000

PendingVideoIds == {"ytAAAAAAAA1", "BV1"}

InitLink ==
    /\ pendingVideoId = NULL
    /\ hasAttemptedLinking = FALSE
    /\ linkPc = "idle"
    /\ retryCount = 0
    /\ checkLog = <<>>
    /\ linkLog = <<>>
    /\ retryDelays = <<>>
    /\ recordVisible = "no"
    /\ visibleAtFirst = "unset"
    /\ linked = FALSE

\* The record written by the analysis reaches the replicas the routes read.
RecordSpreads ==
    /\ recordVisible \in {"no", "some"}
    /\ recordVisible' = IF recordVisible = "no" THEN "some" ELSE "all"
    /\ UNCHANGED <<pendingVideoId, hasAttemptedLinking, linkPc, retryCount, checkLog,
                   linkLog, retryDelays, visibleAtFirst, linked, exceptLink>>

\* Whether one read finds the record.
Sees == CASE recordVisible = "no" -> {FALSE}
          [] recordVisible = "some" -> {TRUE, FALSE}
          [] OTHER -> {TRUE}

\* The link effect: the user is signed in, no attempt was made yet, and there
\* is a video; checkPendingVideoLink() is set to run after 1.5 s.
LinkEffect ==
    /\ user # NULL
    /\ ~hasAttemptedLinking
    /\ videoId # NULL \/ pendingVideoId # NULL
    /\ hasAttemptedLinking' = TRUE
    /\ linkPc' = "timer"
    /\ UNCHANGED <<pendingVideoId, retryCount, checkLog, linkLog, retryDelays,
                   recordVisible, visibleAtFirst, linked, exceptLink>>

VideoToLink == IF pendingVideoId # NULL THEN pendingVideoId ELSE videoId

\* checkPendingVideoLink(retryCount) starts: with a video and a user it asks
\* /api/check-video-cache.
CheckPendingVideoLink ==
    /\ linkPc = "timer"
    /\ linkPc' = IF VideoToLink # NULL /\ user # NULL THEN "check" ELSE "done"
    /\ visibleAtFirst' = IF visibleAtFirst = "unset" THEN recordVisible ELSE visibleAtFirst
    /\ UNCHANGED <<pendingVideoId, hasAttemptedLinking, retryCount, checkLog, linkLog,
                   retryDelays, recordVisible, linked, exceptLink>>

\* checkUrl: the video id is always put in a YouTube watch URL.
CheckUrl(vid) == <<"https://", "www.", "youtube.com", "/", "watch", "?", "v", "=", vid>>

\* What /api/check-video-cache answers for checkUrl: cached when the id it
\* extracts is the video's and the read finds the record; or it fails.
CacheCheckReplies ==
    {IF extractVideoId(CheckUrl(VideoToLink)) = VideoToLink /\ seen
     THEN "cached" ELSE "not-cached" : seen \in Sees} \cup {"http-error", "reject"}

\* The cache check settles: only a cached video goes on to /api/link-video.
CacheCheckSettled(reply) ==
    /\ linkPc = "check"
    /\ reply \in CacheCheckReplies
    /\ linkPc' = IF reply = "cached" THEN "link" ELSE "done"
    /\ checkLog' = Append(checkLog, reply)
    /\ UNCHANGED <<pendingVideoId, hasAttemptedLinking, retryCount, linkLog, retryDelays,
                   recordVisible, visibleAtFirst, linked, exceptLink>>

\* What /api/link-video answers: ok when its read finds the record, 404 when
\* not; or it fails otherwise.
LinkReplies == {IF seen THEN "ok" ELSE "404" : seen \in Sees} \cup {"500", "reject"}

RetryAllowed_Unbounded(reply, count) == reply = "404"
\* response.status === 404 && retryCount < 3
RetryAllowed(reply, count) == reply = "404" /\ count < MaxLinkRetries

\* The /api/link-video call settles.
LinkSettled(reply) ==
    /\ linkPc = "link"
    /\ Len(linkLog) < MaxLinkCalls
    /\ reply \in LinkReplies
    /\ linkLog' = Append(linkLog, reply)
    /\ linked' = (linked \/ reply = "ok")
    /\ pendingVideoId' = IF reply = "ok" THEN NULL ELSE pendingVideoId
    /\ IF reply # "ok" /\ RetryAllowed(reply, retryCount)
       THEN /\ retryDelays' = Append(retryDelays, RetryDelayStep * (retryCount + 1))
            /\ retryCount' = retryCount + 1
            /\ linkPc' = "timer"
       ELSE /\ linkPc' = "done"
            /\ UNCHANGED <<retryDelays, retryCount>>
    /\ UNCHANGED <<hasAttemptedLinking, checkLog, recordVisible, visibleAtFirst, exceptLink>>

(***************************************************************************)
(* /api/transcript for a Bilibili video: convertSubtitlesToTranscript and  *)
(* the route's transformedTranscript.                                      *)
(***************************************************************************)
MaxBody == 2

\* Times are counted in thousandths of a second.
SubtitleTimes == {0, 1000, 2000, 4000}
SubtitleEntries ==
    {e \in [from : SubtitleTimes, to : SubtitleTimes, content : {"", "a"}] : e.from < e.to}
SubtitleBodies == SeqsUpTo(SubtitleEntries, MaxBody)

NoTranscriptResponse == [status |-> 0, transcript |-> <<>>]

InitSubtitle ==
    /\ subtitleBody = <<>>
    /\ transcriptResponse = NoTranscriptResponse

\* convertSubtitlesToTranscript(subtitleData)
convertSubtitlesToTranscript(body) ==
    [i \in 1..Len(body) |->
        [text |-> body[i].content, start |-> body[i].from,
         duration |-> body[i].to - body[i].from]]

\* One item of transformedTranscript: a segment made by
\* convertSubtitlesToTranscript has no offset and has a duration, which is
\* divided by 1000; an empty text and a start of 0 stay what they are.
TransformSegment(item) ==
    [text |-> IF item.text # "" THEN item.text ELSE "",
     start |-> IF item.start # 0 THEN item.start ELSE 0,
     duration |-> IF item.duration \div 1000 # 0 THEN item.duration \div 1000 ELSE 0]

\* The route past the subtitle fetch: 404 without segments, else the
\* transformed transcript.
TranscriptOf(body) ==
    LET transcriptSegments == convertSubtitlesToTranscript(body)
    IN  IF Len(transcriptSegments) = 0
        THEN [status |-> 404, transcript |-> <<>>]
        ELSE [status |-> 200,
              transcript |-> [i \in 1..Len(transcriptSegments) |->
                                 TransformSegment(transcriptSegments[i])]]

\* Another subtitle file is fetched, one entry longer.
FetchSubtitleContent(entry) ==
    /\ Len(subtitleBody) < MaxBody
    /\ subtitleBody' = Append(subtitleBody, entry)
    /\ transcriptResponse' = NoTranscriptResponse
    /\ UNCHANGED exceptSubtitle

\* The route answers.
BilibiliTranscript ==
    /\ transcriptResponse = NoTranscriptResponse
    /\ transcriptResponse' = TranscriptOf(subtitleBody)
    /\ UNCHANGED <<subtitleBody, exceptSubtitle>>

(***************************************************************************)
(* The outbound calls of /api/transcript and /api/video-info: the three    *)
(* calls of lib/bilibili-client, the transcript provider, the metadata     *)
(* provider and oEmbed.                                                    *)
(***************************************************************************)
MaxSubtitles == 2

\* Subtitle tracks: lan, and lan_doc by whether it includes the Chinese
\* word for "Chinese".
SubtitleTracks ==
    { [lan |-> "zh-CN", lan_doc |-> "doc-zhongwen-cn"],
      [lan |-> "zh-Hans", lan_doc |-> "doc-simplified"],
      [lan |-> "ai-zh", lan_doc |-> "doc-zhongwen-auto"],
      [lan |-> "en", lan_doc |-> "doc-english"],
      [lan |-> "ja", lan_doc |-> "doc-japanese"] }
DocIncludesChinese(doc) == doc \in {"doc-zhongwen-cn", "doc-zhongwen-auto"}
NoTrack == [lan |-> "NULL", lan_doc |-> "NULL"]

\* What the providers hold for the video of one request.
ProviderCases ==
    [api : {"transcript", "video-info"}, platform : {"bilibili", "youtube"},
     apiKey : BOOLEAN, pages : {"none", "cid"},
     subtitles : SeqsUpTo(SubtitleTracks, MaxSubtitles),
     body : {<<>>, <<[from |-> 0, to |-> 1000, content |-> "a"]>>}]

NoCall == [api |-> "none", phase |-> "none", timer |-> FALSE]
NoAnswer == [status |-> 0, error |-> "none"]

InitProvider ==
    /\ provider = [api |-> "transcript", platform |-> "bilibili", apiKey |-> TRUE,
                   pages |-> "cid", subtitles |-> <<>>, body |-> <<>>]
    /\ providerPc = "done"
    /\ outboundCall = NoCall
    /\ callLog = <<>>
    /\ thrownKind = "none"
    /\ chosenSubtitle = NoTrack
    /\ providerAnswer = NoAnswer

\* getPreferredSubtitle(subtitles)
IsChineseSub(sub) ==
    sub.lan = "zh-CN" \/ sub.lan = "zh-Hans" \/ DocIncludesChinese(sub.lan_doc)

getPreferredSubtitle_First(subtitles) ==
    IF Len(subtitles) > 0 THEN subtitles[1] ELSE NoTrack
getPreferredSubtitle(subtitles) ==
    LET chineseSubs == SelectSeq(subtitles, IsChineseSub)
    IN  IF Len(chineseSubs) > 0 THEN chineseSubs[1]
        ELSE IF Len(subtitles) > 0 THEN subtitles[1] ELSE NoTrack

\* Whether the call is made with the signal of an AbortController that a
\* 10 s timeout aborts.
HasTimeout(api) == api \in {"view", "player", "subtitle-body"}

\* fetch(...) is called.
Fetch(api) ==
    /\ outboundCall' = [api |-> api, phase |-> "fetching", timer |-> HasTimeout(api)]
    /\ callLog' = Append(callLog, api)
    /\ providerPc' = "awaiting"

\* return NextResponse.json(...)
Respond(status, message) ==
    /\ providerAnswer' = [status |-> status, error |-> message]
    /\ outboundCall' = NoCall
    /\ providerPc' = "done"
    /\ callLog' = callLog

\* The message of the Bilibili branch's catch.
BilibiliCatchMessage(kind) == "bilibili-subtitles-failed"

\* The handler up to its first outbound call.
BeginHandler ==
    /\ providerPc = "start"
    /\ UNCHANGED <<provider, thrownKind, chosenSubtitle, exceptProvider>>
    /\ IF provider.platform = "bilibili" THEN Fetch("view") /\ UNCHANGED providerAnswer
       ELSE IF provider.apiKey
            THEN /\ Fetch(IF provider.api = "transcript" THEN "supadata-transcript"
                          ELSE "supadata-video")
                 /\ UNCHANGED providerAnswer
       ELSE IF provider.api = "transcript" THEN Respond(500, "api-config")
       ELSE Fetch("oembed") /\ UNCHANGED providerAnswer

\* The awaited call has given its data, or has thrown (kind "error", or
\* "timeout" when aborted), or has answered not-ok where the caller looks at it.
Continue(result) ==
    LET api == outboundCall.api
        failed == result \in {"error", "timeout"}
    IN  /\ thrownKind' = IF failed THEN result ELSE thrownKind
        /\ UNCHANGED <<provider, exceptProvider>>
        /\ CASE api = "view" /\ provider.api = "transcript" ->
                  /\ UNCHANGED chosenSubtitle
                  /\ IF failed THEN Respond(500, BilibiliCatchMessage(result))
                     ELSE IF provider.pages = "none" THEN Respond(404, "no-video-info")
                     ELSE Fetch("player") /\ UNCHANGED providerAnswer
             [] api = "view" /\ provider.api = "video-info" ->
                  /\ UNCHANGED chosenSubtitle
                  /\ Respond(200, IF failed THEN "minimal-info" ELSE "none")
             [] api = "player" ->
                  IF failed
                  THEN Respond(500, BilibiliCatchMessage(result)) /\ UNCHANGED chosenSubtitle
                  ELSE IF getPreferredSubtitle(provider.subtitles) = NoTrack
                  THEN Respond(404, "no-subtitles") /\ UNCHANGED chosenSubtitle
                  ELSE /\ chosenSubtitle' = getPreferredSubtitle(provider.subtitles)
                       /\ Fetch("subtitle-body")
                       /\ UNCHANGED providerAnswer
             [] api = "subtitle-body" ->
                  /\ UNCHANGED chosenSubtitle
                  /\ IF failed THEN Respond(500, BilibiliCatchMessage(result))
                     ELSE IF TranscriptOf(provider.body).status = 404
                     THEN Respond(404, "no-transcript")
                     ELSE Respond(200, "none")
             [] api = "supadata-transcript" ->
                  /\ UNCHANGED chosenSubtitle
                  /\ IF result = "not-ok"
                     \* a 404, an unsupported language, or any other status
                     THEN \E answer \in {<<404, "no-captions">>,
                                         <<400, "unsupported-language">>,
                                         <<500, "transcript-failed">>} :
                              Respond(answer[1], answer[2])
                     ELSE IF failed THEN Respond(500, "transcript-failed")
                     ELSE Respond(200, "none")
             [] api = "supadata-video" ->
                  /\ UNCHANGED chosenSubtitle
                  /\ IF result = "data" THEN Respond(200, "none")
                     ELSE Fetch("oembed") /\ UNCHANGED providerAnswer
             [] api = "oembed" ->
                  /\ UNCHANGED chosenSubtitle
                  /\ Respond(200, IF result = "data" THEN "none" ELSE "minimal-info")

\* fetch resolves with a response: the timeout is cleared; what is done with
\* a response that is not ok depends on the caller.
FetchResolves(ok) ==
    /\ outboundCall.phase = "fetching"
    /\ IF HasTimeout(outboundCall.api) /\ ~ok THEN Continue("error")
       ELSE IF outboundCall.api \in {"supadata-video", "oembed"} /\ ~ok
       THEN Continue("not-ok")
       ELSE /\ outboundCall' = [outboundCall EXCEPT !.phase = IF ok THEN "reading"
                                                              ELSE "reading-not-ok",
                                                    !.timer = FALSE]
            /\ UNCHANGED <<provider, providerPc, callLog, thrownKind, chosenSubtitle,
                           providerAnswer, exceptProvider>>

\* fetch rejects: the network failed.
FetchRejects ==
    /\ outboundCall.phase = "fetching"
    /\ Continue("error")

\* The 10 s timeout fires and aborts the call: fetch rejects with AbortError.
TimeoutFires ==
    /\ outboundCall.timer
    /\ Continue("timeout")

\* response.json() or response.text() settles: the data, or a rejection, a
\* text that is no JSON, or a code that is not 0.
BodyRead(ok) ==
    /\ outboundCall.phase \in {"reading", "reading-not-ok"}
    /\ IF ~ok THEN Continue("error")
       ELSE IF outboundCall.phase = "reading-not-ok" THEN Continue("not-ok")
       ELSE Continue("data")

(***************************************************************************)
(* /api/transcript, YouTube branch: the Supadata transcript request and    *)
(* the classification of its answer.                                       *)
(***************************************************************************)
\* What the Supadata transcript API does. language: the error, message and
\* details fields and the body text hold 'language' or 'user aborted request';
\* mentions404: they, or the message of what fetch threw, hold '404'; content:
\* the segment array of the body.
SupadataCases ==
    [kind : {"response"}, status : {200, 206, 400, 404, 500}, hasSupadataError : BOOLEAN,
     language : BOOLEAN, mentions404 : BOOLEAN,
     content : {"none", "empty", "english", "foreign"}]
    \cup [kind : {"reject", "no-key"}, status : {0}, hasSupadataError : {FALSE},
          language : {FALSE}, mentions404 : BOOLEAN, content : {"none"}]

\* response.ok
ResponseOk(status) == status >= 200 /\ status <= 299

\* The catch around the Supadata request: a message that holds '404' is a 404,
\* anything else is thrown again and answered by the handler's outer catch.
FetchErrorStatus(mentions404) == IF mentions404 THEN 404 ELSE 500

\* The status the handler answers a YouTube request with.
YouTubeTranscriptStatus(u) ==
    CASE u.kind = "no-key" -> 500
      [] u.kind = "reject" -> FetchErrorStatus(u.mentions404)
      [] u.kind = "response" /\ ~ResponseOk(u.status) ->
            IF u.status = 404 THEN 404
            ELSE IF u.language THEN 400
            ELSE FetchErrorStatus(u.mentions404)
      [] u.kind = "response" /\ ResponseOk(u.status) ->
            IF u.status = 206 \/ u.hasSupadataError
            THEN (IF u.language THEN 400 ELSE 404)
            ELSE IF u.content \in {"none", "empty"} THEN 404
            ELSE IF u.content = "foreign" THEN 400
            ELSE 200

\* The handler answers the YouTube request.
HandleYouTubeTranscript ==
    /\ ytStatus = 0
    /\ ytStatus' = YouTubeTranscriptStatus(ytUpstream)
    /\ UNCHANGED <<ytUpstream, infoUpstream, infoAnswer, exceptUpstream>>

(***************************************************************************)
(* /api/video-info past its prelude.                                       *)
(***************************************************************************)
\* What a metadata provider's fetch and body give: it rejects, answers non-2xx,
\* a body that is no JSON, the JSON null, an object without the fields or one
\* with them.
ProviderReplies == {"reject", "http-error", "bad-json", "null-body", "no-fields", "full"}

\* The view API for a Bilibili video: a failure getBilibiliVideoInfo throws on,
\* or result.data with or without title and owner.name.
BilibiliViewCases ==
    [platform : {"bilibili"}, view : {"reject", "timeout", "http-error", "code-nonzero"},
     title : {FALSE}, owner : {"absent"}]
    \cup [platform : {"bilibili"}, view : {"data"}, title : BOOLEAN,
          owner : {"absent", "unnamed", "named"}]

YouTubeInfoCases ==
    [platform : {"youtube"}, apiKey : BOOLEAN, supadata : ProviderReplies,
     oembed : ProviderReplies]

VideoInfoCases == BilibiliViewCases \cup YouTubeInfoCases

NoInfoAnswer == [status |-> 0, fields |-> {}, from |-> "none", calls |-> <<>>]

InfoAnswer(fields, from, calls) ==
    [status |-> 200, fields |-> fields, from |-> from, calls |-> calls]

\* convertBilibiliToVideoInfo(bilibiliData, videoId), as the response's JSON
\* carries it: an undefined property is left out.
convertBilibiliToVideoInfo(c) ==
    {"videoId"} \cup (IF c.title THEN {"title"} ELSE {})
                \cup (IF c.owner = "named" THEN {"author"} ELSE {})

AllInfoFields == {"videoId", "title", "author"}

\* The Bilibili branch: the placeholder when getBilibiliVideoInfo or the
\* conversion throws.
BilibiliVideoInfoAnswer(c) ==
    IF c.view = "data" /\ c.owner # "absent"
    THEN InfoAnswer(convertBilibiliToVideoInfo(c), "bilibili", <<"view">>)
    ELSE InfoAnswer(AllInfoFields, "bilibili-placeholder", <<"view">>)

\* A provider's reply can be read: the fetch resolved 2xx with a JSON object.
Readable(reply) == reply \in {"no-fields", "full"}

\* The oEmbed fallback and its minimal info.
OembedAnswer(c, calls) ==
    IF Readable(c.oembed)
    THEN InfoAnswer(AllInfoFields, "oembed", Append(calls, "oembed"))
    ELSE InfoAnswer(AllInfoFields, "placeholder", Append(calls, "oembed"))

\* The YouTube branch: Supadata when the key is configured, then oEmbed.
YouTubeVideoInfoAnswer(c) ==
    IF c.apiKey /\ Readable(c.supadata)
    THEN InfoAnswer(AllInfoFields, "supadata", <<"supadata">>)
    ELSE OembedAnswer(c, IF c.apiKey THEN <<"supadata">> ELSE <<>>)

\* The handler answers the request for a valid URL.
HandleVideoInfo ==
    /\ infoAnswer = NoInfoAnswer
    /\ infoAnswer' = IF infoUpstream.platform = "bilibili"
                     THEN BilibiliVideoInfoAnswer(infoUpstream)
                     ELSE YouTubeVideoInfoAnswer(infoUpstream)
    /\ UNCHANGED <<ytUpstream, ytStatus, infoUpstream, exceptUpstream>>

InitUpstream ==
    /\ ytUpstream = [kind |-> "no-key", status |-> 0, hasSupadataError |-> FALSE,
                     language |-> FALSE, mentions404 |-> FALSE, content |-> "none"]
    /\ ytStatus = 0
    /\ infoUpstream = [platform |-> "youtube", apiKey |-> FALSE, supadata |-> "reject",
                       oembed |-> "reject"]
    /\ infoAnswer = NoInfoAnswer

InitOther ==
    /\ InitLib
    /\ InitRoute
    /\ InitPlayer
    /\ InitLink
    /\ InitSubtitle
    /\ InitProvider
    /\ InitUpstream
    /\ superseded = NoRun
    /\ InitPersist

\* A URL is entered.
EnterUrl(u) ==
    /\ url' = u
    /\ extracted' = "unset"
    /\ UNCHANGED exceptLib

\* extractVideoId(url) is called.
CallExtractVideoId ==
    /\ extracted = "unset"
    /\ extracted' = extractVideoId(url.text)
    /\ UNCHANGED <<url, exceptLib>>

(***************************************************************************)
(* Specifications.                                                         *)
(***************************************************************************)
\* processVideo and the rate-limit checks, over an untouched database.
Init ==
    /\ InitPage
    /\ InitOther
    /\ InitDb
    /\ sessionUser = NULL

Next ==
    \/ \E urlValid \in BOOLEAN : ProcessVideoStart(urlValid)
    \/ \E reply \in CacheReplies : OnCacheSettled(reply)
    \/ \E reply \in LimitReplies : OnLimitSettled(reply)
    \/ \E t \in TranscriptReplies, v \in VideoInfoReplies : OnFetchSettled(t, v)
    \/ \E reply \in TopicsReplies : OnTopicsSettled(reply)
    \/ \E reply \in TakeawaysReplies : OnTakeawaysSettled(reply)
    \/ \E op \in background, reply \in BackgroundReplies : BackgroundSettled(op, reply)
    \/ \E reply \in LimitReplies : CheckRateLimitSettled(reply)

Spec == Init /\ [][Next]_vars

\* The page after a first analysis of an anonymous visitor went through, with
\* every request of it settled.
InitThemes ==
    /\ InitDb
    /\ InitOther
    /\ sessionUser = NULL
    /\ user = NULL
    /\ srvLimit = [canGenerate |-> TRUE, hasRemaining |-> TRUE, remaining |-> Num(1)]
    /\ route = "/analyze"
    /\ pageState = "IDLE"
    /\ error = ""
    /\ isRateLimitError = FALSE
    /\ videoId = "v1"
    /\ videoInfo = "info"
    /\ takeaways = "content"
    /\ transcript = NormalizeTranscript(RawTranscript(1))
    /\ topics \in {GeneratedTopics(l, transcript) : l \in GeneratedTopicPayloads}
    /\ baseTopics = topics
    /\ selectedTopic = FirstTopic(topics)
    /\ themes = Themes
    /\ selectedTheme = NULL
    /\ themeTopicsMap = [t \in Themes |-> NoList]
    /\ isLoadingThemeTopics = FALSE
    /\ themeError = NULL
    /\ rateLimitInfo = Num(1)
    /\ authLimitReached = FALSE
    /\ hasRedirectedForLimit = FALSE
    /\ selectedThemeRef = NULL
    /\ nextThemeRequestId = 0
    /\ activeThemeRequestId = 0
    /\ pendingThemeRequests = [t \in Themes |-> 0]
    /\ themeInFlight = {}
    /\ limitInFlight = 0
    /\ background = {}
    /\ pc = "done"
    /\ pv \in {l \in [authLimitReached : {FALSE}, remaining : {Num(-1)},
                       limitData : {"data"}, cacheData : CacheReplies,
                       topicsData : GeneratedTopicPayloads, themes : {Themes},
                       summary : {"ok"}, videoInfoReply : {"ok"},
                       summaryRequest : {"settled"}, savedVideoInfo : {"info"}] :
                  l.cacheData.kind = "miss" /\ GeneratedTopics(l.topicsData, transcript) = topics}
    /\ issued = {"/api/check-video-cache", "/api/check-limit", "/api/transcript",
                 "/api/video-info", "/api/quick-preview", "/api/video-analysis",
                 "/api/generate-summary", "/api/save-analysis",
                 "/api/suggested-questions"}
    /\ pageStateLog = <<"ANALYZING_NEW", "IDLE">>
    /\ loadingStage = NULL
    /\ outcome = "analyzed"
    /\ runs = 1
    /\ discarded = {}
    /\ issuedThemeIds = {}
    /\ usedTopicKeys = QuoteKeys(baseTopics)

\* processVideo is invoked again (the auto-start effect saw another mode or
\* URL) while the earlier invocation awaits the cache or the transcript.
ProcessVideoRestart ==
    /\ pc \in {"cache", "fetch"}
    /\ superseded = NoRun
    /\ ProcessVideoBody(TRUE)
    /\ superseded' = [pc |-> pc]

\* The overtaken invocation goes on. Its cache request carries no signal: the
\* response is handled as ever, here a hit or a rejected fetch (after a miss
\* the invocation goes on as a fresh one does). Its transcript request was
\* aborted by abortManager.cleanup(): the AbortError becomes the timeout error
\* that the catch shows, and the finally block runs.
SupersededSettles(reply) ==
    /\ superseded # NoRun
    /\ superseded' = NoRun
    /\ CASE superseded.pc = "cache" /\ IsCacheHit(reply) ->
              /\ transcript' = NormalizeTranscript(reply.transcript)
              /\ topics' = HydrateTopicsWithTranscript(ArrayOrEmpty(reply.topics), transcript')
              /\ baseTopics' = topics'
              /\ usedTopicKeys' = QuoteKeys(topics')
              /\ selectedTopic' = FirstTopic(topics')
              /\ takeaways' = IF reply.hasSummary THEN "content" ELSE "none"
              /\ pageState' = "IDLE"
              /\ loadingStage' = FinallyLoadingStage(loadingStage)
              /\ background' = background \cup {"load-cached-themes"} \cup
                    (IF reply.hasSummary THEN {} ELSE {"generate-cached-takeaways"})
              /\ UNCHANGED error
         [] superseded.pc = "cache" /\ ~IsCacheHit(reply) ->
              /\ reply.kind = "reject"
              /\ error' = "cache-check-failed"
              /\ pageState' = "IDLE"
              /\ loadingStage' = FinallyLoadingStage(loadingStage)
              /\ takeaways' = StopLoading(takeaways)
              /\ UNCHANGED <<transcript, topics, baseTopics, usedTopicKeys, selectedTopic, background>>
         [] superseded.pc = "fetch" ->
              /\ reply.kind = "reject"
              /\ error' = "transcript-failed"
              /\ pageState' = "IDLE"
              /\ loadingStage' = FinallyLoadingStage(loadingStage)
              /\ takeaways' = StopLoading(takeaways)
              /\ UNCHANGED <<transcript, topics, baseTopics, usedTopicKeys, selectedTopic, background>>
    /\ UNCHANGED <<user, srvLimit, isRateLimitError, videoId, videoInfo, themes,
                   selectedTheme, themeTopicsMap, isLoadingThemeTopics, themeError,
                   limitVars, themeRefVars, pc, pv, issued, pageStateLog, outcome, runs,
                   dbVars, besidePage, persistVars>>

\* processVideo invoked again while an invocation is under way.
InitSupersede == Init

NextSupersede ==
    \/ \E urlValid \in BOOLEAN : ProcessVideoStart(urlValid)
    \/ ProcessVideoRestart
    \/ \E reply \in CacheReplies : SupersededSettles(reply)
    \/ \E reply \in CacheReplies : OnCacheSettled(reply)
    \/ \E reply \in LimitReplies : OnLimitSettled(reply)
    \/ \E t \in TranscriptReplies, v \in VideoInfoReplies : OnFetchSettled(t, v)

SpecSupersede == InitSupersede /\ [][NextSupersede]_vars

\* Theme selection on the page a finished analysis left.
NextThemes ==
    \/ \E t \in Themes \cup {NULL} : HandleThemeSelect(t)
    \/ \E req \in themeInFlight, reply \in AllThemeReplies : ThemeResponse(req, reply)

SpecThemes == InitThemes /\ [][NextThemes]_vars

\* Theme selection across processVideo runs of one page: the page a finished
\* analysis left, re-run on a video the cache holds.
InitReruns == InitThemes

NextReruns ==
    \/ \E t \in Themes \cup {NULL} : HandleThemeSelect(t)
    \/ \E req \in themeInFlight, reply \in AllThemeReplies : ThemeResponse(req, reply)
    \/ \E urlValid \in BOOLEAN : ProcessVideoStart(urlValid)
    \/ \E reply \in {r \in CacheReplies : IsCacheHit(r)} : OnCacheSettled(reply)
    \/ \E op \in background, reply \in BackgroundReplies : BackgroundSettled(op, reply)

SpecReruns == InitReruns /\ [][NextReruns]_vars

\* A page that stays as it was mounted; an untouched database.
QuietPage ==
    /\ InitPage
    /\ user = NULL
    /\ srvLimit.remaining = Num(1)
    /\ pageState = "ANALYZING_NEW"

QuietDb ==
    /\ InitDb
    /\ sessionUser = NULL

\* The database, under a page that stays as it was mounted.
InitTables ==
    /\ InitDb
    /\ InitOther
    /\ QuietPage

\* extractVideoId on the URLs tried.
InitUrl ==
    /\ QuietDb
    /\ QuietPage
    /\ url \in UrlCases
    /\ extracted = "unset"
    /\ InitRoute
    /\ InitPlayer
    /\ InitLink
    /\ InitSubtitle
    /\ InitProvider
    /\ InitUpstream
    /\ superseded = NoRun
    /\ InitPersist

NextUrl ==
    \/ \E u \in UrlCases : EnterUrl(u)
    \/ CallExtractVideoId

SpecUrl == InitUrl /\ [][NextUrl]_vars

\* The three route handlers on the requests tried.
InitRoutes ==
    /\ QuietDb
    /\ QuietPage
    /\ InitLib
    /\ request \in Requests
    /\ response = NotAnswered
    /\ InitPlayer
    /\ InitLink
    /\ InitSubtitle
    /\ InitProvider
    /\ InitUpstream
    /\ superseded = NoRun
    /\ InitPersist

NextRoutes ==
    \/ \E req \in Requests : Receive(req)
    \/ TranscriptHandler
    \/ VideoInfoHandler
    \/ CheckVideoCacheHandler

SpecRoutes == InitRoutes /\ [][NextRoutes]_vars

\* The page's playback requests and the player, over the topic lists tried.
InitPlayback ==
    /\ QuietDb
    /\ QuietPage
    /\ InitLib
    /\ InitRoute
    /\ InitLink
    /\ InitSubtitle
    /\ InitProvider
    /\ InitUpstream
    /\ superseded = NoRun
    /\ InitPersist
    /\ playerTopics \in TopicLists
    /\ playbackCommand = NoCommand
    /\ issuedCommands = 0
    /\ applied = [c \in CommandIds |-> 0]
    /\ cleared = {}
    /\ commandTimer = 0
    /\ playerReady = FALSE
    /\ isPlaying = FALSE
    /\ currentTime = 0
    /\ isPlayingAll = FALSE
    /\ playAllIndex = 0
    /\ seekTimers = {}
    /\ started = {}
    /\ playAllEnded = FALSE
    /\ citationReel = NoReel
    /\ citationReelSegmentIndex = 0
    /\ reelLog = <<>>
    /\ reelEnded = FALSE

NextPlayback ==
    \/ \E seconds \in SeekTimes : HandleTimestampClick(seconds)
    \/ \E k \in 1..MaxPlayTopics : HandleTopicSelect(k)
    \/ HandleTogglePlayAll
    \/ InitializePlayer
    \/ ExecuteCommand
    \/ \E i \in 0..(MaxPlayTopics - 1) : SeekTimeout(i)
    \/ Tick

SpecPlayback == InitPlayback /\ [][NextPlayback]_vars

\* The player of a video with one topic receiving PLAY_CITATIONS commands
\* among the other commands.
InitReel ==
    /\ InitPlayback
    /\ playerTopics = <<[start |-> 2, end |-> 3]>>

NextReel ==
    \/ \E citations \in CitationLists : RequestPlayCitations(citations)
    \/ MonitorCitationReel
    \/ \E seconds \in SeekTimes : HandleTimestampClick(seconds)
    \/ HandleTopicSelect(1)
    \/ HandleTogglePlayAll
    \/ InitializePlayer
    \/ ExecuteCommand
    \/ SeekTimeout(0)
    \/ Tick

SpecReel == InitReel /\ [][NextReel]_vars

\* The page mounted after sign-in or not, with a pending video in session storage.
InitLinking ==
    /\ QuietDb
    /\ InitPage
    /\ srvLimit = [canGenerate |-> TRUE, hasRemaining |-> TRUE, remaining |-> Num(1)]
    /\ pageState = "ANALYZING_NEW"
    /\ InitLib
    /\ InitRoute
    /\ InitPlayer
    /\ InitSubtitle
    /\ InitProvider
    /\ InitUpstream
    /\ superseded = NoRun
    /\ InitPersist
    /\ pendingVideoId \in PendingVideoIds
    /\ hasAttemptedLinking = FALSE
    /\ linkPc = "idle"
    /\ retryCount = 0
    /\ checkLog = <<>>
    /\ linkLog = <<>>
    /\ retryDelays = <<>>
    /\ recordVisible \in {"no", "some", "all"}
    /\ visibleAtFirst = "unset"
    /\ linked = FALSE

NextLinking ==
    \/ RecordSpreads
    \/ LinkEffect
    \/ CheckPendingVideoLink
    \/ \E reply \in {"cached", "not-cached", "http-error", "reject"} : CacheCheckSettled(reply)
    \/ \E reply \in {"ok", "404", "500", "reject"} : LinkSettled(reply)

SpecLinking == InitLinking /\ [][NextLinking]_vars

\* The Bilibili transcript route on the subtitle bodies tried.
InitSubtitles ==
    /\ QuietDb
    /\ QuietPage
    /\ InitLib
    /\ InitRoute
    /\ InitPlayer
    /\ InitLink
    /\ InitProvider
    /\ InitUpstream
    /\ superseded = NoRun
    /\ InitPersist
    /\ subtitleBody \in SubtitleBodies
    /\ transcriptResponse = NoTranscriptResponse

NextSubtitles ==
    \/ \E entry \in SubtitleEntries : FetchSubtitleContent(entry)
    \/ BilibiliTranscript

SpecSubtitles == InitSubtitles /\ [][NextSubtitles]_vars

\* The two routes' outbound calls, on the provider cases tried.
InitProviders ==
    /\ QuietDb
    /\ QuietPage
    /\ InitLib
    /\ InitRoute
    /\ InitPlayer
    /\ InitLink
    /\ InitSubtitle
    /\ InitUpstream
    /\ superseded = NoRun
    /\ InitPersist
    /\ provider \in ProviderCases
    /\ providerPc = "start"
    /\ outboundCall = NoCall
    /\ callLog = <<>>
    /\ thrownKind = "none"
    /\ chosenSubtitle = NoTrack
    /\ providerAnswer = NoAnswer

NextProviders ==
    \/ BeginHandler
    \/ \E ok \in BOOLEAN : FetchResolves(ok)
    \/ FetchRejects
    \/ TimeoutFires
    \/ \E ok \in BOOLEAN : BodyRead(ok)

SpecProviders == InitProviders /\ [][NextProviders]_vars

\* /api/transcript for a YouTube video, whatever Supadata does.
InitYouTube ==
    /\ QuietDb
    /\ QuietPage
    /\ InitLib
    /\ InitRoute
    /\ InitPlayer
    /\ InitLink
    /\ InitSubtitle
    /\ InitProvider
    /\ superseded = NoRun
    /\ InitPersist
    /\ ytUpstream \in SupadataCases
    /\ ytStatus = 0
    /\ infoUpstream = [platform |-> "youtube", apiKey |-> FALSE, supadata |-> "reject",
                       oembed |-> "reject"]
    /\ infoAnswer = NoInfoAnswer

NextYouTube == HandleYouTubeTranscript

SpecYouTube == InitYouTube /\ [][NextYouTube]_vars

\* /api/video-info for a valid URL, whatever the providers do.
InitVideoInfo ==
    /\ QuietDb
    /\ QuietPage
    /\ InitLib
    /\ InitRoute
    /\ InitPlayer
    /\ InitLink
    /\ InitSubtitle
    /\ InitProvider
    /\ superseded = NoRun
    /\ InitPersist
    /\ ytUpstream = [kind |-> "no-key", status |-> 0, hasSupadataError |-> FALSE,
                     language |-> FALSE, mentions404 |-> FALSE, content |-> "none"]
    /\ ytStatus = 0
    /\ infoUpstream \in VideoInfoCases
    /\ infoAnswer = NoInfoAnswer

NextVideoInfo == HandleVideoInfo

SpecVideoInfo == InitVideoInfo /\ [][NextVideoInfo]_vars

\* The timeout of an armed call fires; a provider may never answer.
FairProviders == SpecProviders /\ WF_vars(BeginHandler) /\ WF_vars(TimeoutFires)

\* Calls of upsert_video_analysis_with_platform with any arguments.
NextUpsert == \E a \in UpsertArgs : Upsert(a)

SpecUpsert == InitTables /\ [][NextUpsert]_vars

\* Saved analyses (a transcript, topics or none) and cache lookups.
CacheArgs == {a \in UpsertArgs : a.transcript # NULL /\ a.topics # "j2"}

NextCache ==
    \/ \E a \in CacheArgs : Upsert(a)
    \/ \E a \in YoutubeArgs : SaveYoutube(a)
    \/ \E u \in Urls : CheckVideoCache(u)

SpecCache == InitTables /\ [][NextCache]_vars

\* Every way a row's identifiers are written: the function and direct writes.
IdArgs ==
    {a \in UpsertArgs : a.topics # "j2" /\ a.summary = NULL /\ a.suggested_questions = NULL}

NextTable ==
    \/ \E a \in IdArgs : Upsert(a)
    \/ \E r \in RawRows : InsertRow(r)
    \/ \E i \in 1..MaxRows, b \in OrNull(Bvids), a \in OrNull(Aids) : UpdateRowIds(i, b, a)

SpecTable == InitTables /\ [][NextTable]_vars

(***************************************************************************)
(* Properties.                                                             *)
(***************************************************************************)
\* C1: a theme request's response that arrives while its theme is not the
\* selected one (theme A was selected, then theme B or none) changes none of
\* topics, selectedTopic and themeError; a response only ever sets them when
\* its theme is the selected theme.
C1_LateThemeResponseIgnored ==
    [][\A req \in themeInFlight :
          (themeInFlight' = themeInFlight \ {req} /\ selectedTheme # req.theme)
             => UNCHANGED <<topics, selectedTopic, themeError>>]_vars

\* Theme B is selected and shown, and the response of theme A arrived, with
\* topics, while A was not the selected theme.
C1_Witness_LateResponse ==
    /\ selectedTheme = "B"
    /\ topics.src = "B"
    /\ "A" \in discarded
    /\ themeTopicsMap["A"].n > 0

\* C2: for every video, each of topics, summary and suggested_questions of its
\* record holds the most recently supplied non-null value, after any sequence of
\* upsert calls (a field is never emptied by a call that passes null for it).
C2_FieldsHoldLatestSupplied ==
    \A i \in DOMAIN rows : \A f \in Fields :
        rows[i][f] = supplied[VideoKey(rows[i].bvid, rows[i].aid)][f]

\* C3: an upsert for a not-yet-stored video with a summary and null topics,
\* applied twice, leaves the table as one application does.
C3_UpsertIdempotent ==
    \A a \in UpsertArgs :
        (a.topics = NULL /\ a.summary # NULL)
            => UpsertRows(UpsertRows(rows, a), a) = UpsertRows(rows, a)

\* Two rows are records of the same video: they share a bvid or share an aid.
SameVideo(r1, r2) ==
    \/ r1.bvid # NULL /\ r1.bvid = r2.bvid
    \/ r1.aid # NULL /\ r1.aid = r2.aid

\* C4: the table holds at most one record per video, whether the video is
\* identified by bvid or by aid.
C4_OneRecordPerVideo ==
    \A i, j \in DOMAIN rows : i # j => ~SameVideo(rows[i], rows[j])

\* C5 as stated: every row has exactly one of bvid and aid non-null.
C5_ExactlyOneId ==
    \A i \in DOMAIN rows : (rows[i].bvid # NULL) # (rows[i].aid # NULL)

\* C5: every row has at least one of bvid and aid non-null; the check constraint
\* rejects only the writes that would leave both null.
C5_AtLeastOneId ==
    \A i \in DOMAIN rows : rows[i].bvid # NULL \/ rows[i].aid # NULL

\* The table is full and a row carries both identifiers.
C5_Witness_BothIds ==
    /\ Len(rows) = MaxRows
    /\ \E i \in DOMAIN rows : rows[i].bvid # NULL /\ rows[i].aid # NULL

\* The stored records of a video that hold topics.
PopulatedRecords(platform, vid) ==
    {c.row : c \in {m \in (IF platform = "youtube" THEN YoutubeMatches(ytRows, vid)
                                                   ELSE BilibiliMatches(rows, vid)) :
                       m.row.topics # NULL}}

\* C6: for a well-formed request, check-video-cache answers cached:true exactly
\* when a stored record of the video holds topics, then returns that record's
\* transcript, topics, summary and suggested questions unchanged, and never
\* calls a provider.
C6_CachedIffRecordWithTopics ==
    \A u \in Urls :
        (u.given /\ DetectPlatform(u) # NULL /\ ExtractVideoId(u) # NULL) =>
            LET r == CacheResponse(rows, ytRows, u)
                recs == PopulatedRecords(DetectPlatform(u), ExtractVideoId(u))
            IN  /\ r.cached <=> recs # {}
                /\ r.cached =>
                     \E c \in recs : /\ r.transcript = c.transcript
                                     /\ r.topics = c.topics
                                     /\ r.summary = c.summary
                                     /\ r.suggestedQuestions = c.suggested_questions
                /\ r.providerCalls = 0

AnonymousLimitBlocked == {"/api/transcript", "/api/video-info", "/api/video-analysis"}

C8_AuthLimitBlocksRequests ==
    (/\ user # NULL
     /\ srvLimit.canGenerate = FALSE
     /\ pv.cacheData.kind \in {"miss", "http-error"})
        => /\ pc = "done"
           /\ error = AUTH_LIMIT_MESSAGE
           /\ isRateLimitError
           /\ issued \cap AnalysisEndpoints = {}

HitPathUnused == {"/api/transcript", "/api/video-info", "/api/check-limit"}

\* C9: once the cache check of a run has answered cached:true, the run is over
\* with pageState IDLE, transcript and topics are those of the cached record
\* (normalized, hydrated), pageState went through LOADING_CACHED and then IDLE,
\* and the run issued no /api/transcript, /api/video-info or /api/check-limit
\* request.
C9_CacheHitPath ==
    pv.cacheData.kind = "hit"
        => /\ pc = "done"
           /\ pageState = "IDLE"
           /\ transcript.n = pv.cacheData.transcript.n
           /\ transcript.normalized
           /\ topics.n = IF pv.cacheData.topics.src = "not-an-array"
                         THEN 0 ELSE pv.cacheData.topics.n
           /\ topics.n > 0 => topics.src = "cache"
           /\ topics.hydrated
           /\ \E i, j \in DOMAIN pageStateLog :
                 /\ i < j
                 /\ pageStateLog[i] = "LOADING_CACHED"
                 /\ pageStateLog[j] = "IDLE"
           /\ issued \cap HitPathUnused = {}

\* A run ended on a cache hit whose record held a transcript and topics.
C9_Witness_Hit ==
    /\ pv.cacheData.kind = "hit"
    /\ pc = "done"
    /\ transcript.n > 0
    /\ topics.n > 0

\* A miss-path run whose transcript and topic-generation requests both succeeded
\* is over.
MissPathSucceeded ==
    /\ pc = "done"
    /\ pv.cacheData.kind \in {"miss", "http-error"}
    /\ pv.topicsData # NoList

C11_ExtractVideoId ==
    extracted # "unset" =>
        /\ url.supported => extracted = url.id
        /\ url.host = "other" => extracted = NULL

\* The requests C12 is about: the url is missing, no platform can be detected
\* from it, or no video id can be extracted from it.
BadUrlRequest ==
    \/ request.body \in BodyKinds
    \/ /\ request.body = "text"
       /\ \/ detectPlatform(request.url.text) = NULL
          \/ extractVideoId(request.url.text) = NULL

\* C12: each of the three routes answers such a request with HTTP 400, before
\* any upstream or database call, and never with a 500.
C12_BadUrlIs400 ==
    (response # NotAnswered /\ BadUrlRequest) =>
        response.status = 400 /\ response.calls = 0

\* C13: every command set as playbackCommand is applied by the player exactly
\* once and cleared only after it was applied: none is applied twice, none is
\* cleared unapplied, and a command that is no longer the playbackCommand has
\* been applied.
C13_CommandsConsumedOnce ==
    \A c \in 1..issuedCommands :
        /\ applied[c] <= 1
        /\ c \in cleared => applied[c] = 1
        /\ c # playbackCommand.id => applied[c] = 1

\* C14: Play All visits the topics in array order without skipping:
\* playAllIndex advances from i to i+1 only when topic i was started and the
\* playback time has reached the end of its segment, and when the interval ends
\* Play All every index has been played, isPlayingAll is false and playback
\* has stopped.
C14_PlayAllInOrder ==
    [][/\ (isPlayingAll /\ isPlayingAll' /\ playAllIndex' # playAllIndex) =>
              /\ playAllIndex' = playAllIndex + 1
              /\ playAllIndex \in started
              /\ currentTime' >= playerTopics[playAllIndex + 1].end
       /\ (~playAllEnded /\ playAllEnded') =>
              /\ \A i \in 0..(Len(playerTopics) - 1) : i \in started
              /\ ~isPlayingAll'
              /\ ~isPlaying']_vars

NoLinkFailure ==
    /\ \A i \in 1..Len(checkLog) : checkLog[i] \in {"cached", "not-cached"}
    /\ \A i \in 1..Len(linkLog) : linkLog[i] \in {"ok", "404"}

\* C16: if the record was not visible when the link was first attempted but
\* became visible before the three retries were exhausted, the attempt ends with
\* the video linked and pendingVideoId removed.
C16_LaggingRecordLinked ==
    (/\ linkPc = "done"
     /\ visibleAtFirst = "no"
     /\ recordVisible = "all"
     /\ Len(linkLog) < 4
     /\ NoLinkFailure) =>
        linked /\ pendingVideoId = NULL

\* C17: a failed /api/transcript request (rejected, non-2xx, or a body that
\* does not parse) is fatal: processVideo sets a non-empty error, requests
\* neither /api/video-analysis nor /api/generate-summary, leaves topics empty and
\* ends in pageState IDLE.
C17_TranscriptFailureFatal ==
    [][\A t \in TranscriptReplies, v \in VideoInfoReplies :
          (t.kind # "ok" /\ OnFetchSettled(t, v)) =>
              /\ error' # ""
              /\ issued' \cap {"/api/video-analysis", "/api/generate-summary"} = {}
              /\ topics'.n = 0
              /\ pageState' = "IDLE"
              /\ pc' = "done"]_vars

\* Witness of C17: a miss-path run ended by a failed transcript request.
C17_Witness_TranscriptFailed ==
    /\ outcome = "transcript-failed"
    /\ pv.cacheData.kind = "miss"
    /\ error # ""
    /\ pageState = "IDLE"

\* C18: when /api/video-info fails while the transcript request succeeds, no
\* error is set by it, topic generation is requested, and the body sent to
\* /api/save-analysis carries the placeholder video info.
C18_VideoInfoFailureDegrades ==
    pv.videoInfoReply = "failed" =>
        /\ "/api/video-analysis" \in issued
        /\ pc = "topics" => error = ""
        /\ error # "" => outcome \in {"topics-failed", "topics-429", "summary-threw"}
        /\ "/api/save-analysis" \in issued => pv.savedVideoInfo = "placeholder"

\* Witness of C18: the analysis was saved after a failed video-info request.
C18_Witness_SavedWithPlaceholder ==
    /\ pv.videoInfoReply = "failed"
    /\ "/api/save-analysis" \in issued
    /\ outcome = "analyzed"
    /\ error = ""

\* The topic-generation replies C19 is about: a rejected fetch or a non-2xx status.
TopicFailureKinds == {"reject", "http-error", "429", "429-auth"}

\* What every such reply leads to: the summary request aborted and settled,
\* neither topics nor summary content in the view, the run over.
SummaryAbortedNothingWritten ==
    /\ pv'.summaryRequest = "aborted-settled"
    /\ topics'.n = 0
    /\ baseTopics'.n = 0
    /\ takeaways' = "content" => takeaways = "content"
    /\ pv'.summary = "none"
    /\ pc' = "done"

\* C19 as stated: whenever the topic-generation request rejects or answers a
\* non-2xx status, the summary request is aborted and settled before the error
\* is surfaced, the topic error is what is shown, and neither topics nor summary
\* content are written to the view.
C19_TopicFailureShowsTopicError ==
    [][\A reply \in TopicsReplies :
          (reply.kind \in TopicFailureKinds /\ OnTopicsSettled(reply)) =>
              /\ SummaryAbortedNothingWritten
              /\ error' \in {"topics-failed", "rate-limit-429"}]_vars

\* C19, amended: the same, except that a 429 answer that requires sign-in
\* surfaces no error: the summary request is aborted and settled, then the page
\* redirects to sign-in.
C19_TopicFailureAbortsSummary ==
    [][\A reply \in TopicsReplies :
          (reply.kind \in TopicFailureKinds /\ OnTopicsSettled(reply)) =>
              /\ SummaryAbortedNothingWritten
              /\ reply.kind # "429-auth" => error' \in {"topics-failed", "rate-limit-429"}
              /\ reply.kind = "429-auth" =>
                     error' = "" /\ route' = "/?auth=limit" /\ hasRedirectedForLimit']_vars

\* Witness of C19: a 429 that requires sign-in ended the run with the summary
\* request aborted and no error shown.
C19_Witness_RedirectWithoutError ==
    /\ outcome = "topics-redirect"
    /\ pv.summaryRequest = "aborted-settled"
    /\ error = ""
    /\ pc = "done"

\* C20: the segments /api/transcript returns for a Bilibili video are the
\* subtitle body's entries, in the same order and number, each with
\* start = from, duration = to - from and text = content, in seconds.
C20_SegmentsAreBodyEntries ==
    transcriptResponse.status = 200 =>
        /\ Len(transcriptResponse.transcript) = Len(subtitleBody)
        /\ \A i \in 1..Len(subtitleBody) :
              /\ transcriptResponse.transcript[i].start = subtitleBody[i].from
              /\ transcriptResponse.transcript[i].duration =
                     subtitleBody[i].to - subtitleBody[i].from
              /\ transcriptResponse.transcript[i].text = subtitleBody[i].content

\* C21: every outbound call to a third-party API carries a timeout, so none
\* stays pending forever: the n-th call of a request, once made, eventually
\* returns, fails or is aborted.
C21_OutboundCallsSettle ==
    \A n \in 1..3 :
        (Len(callLog) = n /\ outboundCall.phase # "none")
            ~> (Len(callLog) > n \/ outboundCall.phase = "none")

\* C22: when a Bilibili call of /api/transcript is aborted by its timeout,
\* the error the endpoint returns differs from the one it returns for an
\* upstream failure that is no timeout.
C22_TimeoutIsDistinctError ==
    (provider.api = "transcript" /\ provider.platform = "bilibili"
        /\ providerPc = "done" /\ thrownKind = "timeout")
    => providerAnswer # [status |-> 500, error |-> BilibiliCatchMessage("error")]

FirstChineseElseFirst ==
    LET subs == provider.subtitles
        zh == {i \in 1..Len(subs) : IsChineseSub(subs[i])}
    IN  IF zh # {} THEN subs[Smallest(zh)] ELSE subs[1]

\* C30: the Bilibili transcript pipeline calls view, subtitle list and
\* subtitle body in that order and stops at the first failing step: without a
\* content ID it answers 404 and the subtitle list is not requested, with an
\* empty subtitle list it answers 404 and no body is fetched, a thrown
\* provider error answers 500; the subtitle fetched is the first Chinese one
\* in list order, else the first.
C30_BilibiliPipelineInOrder ==
    (provider.api = "transcript" /\ provider.platform = "bilibili") =>
        /\ callLog \in {<<>>, <<"view">>, <<"view", "player">>,
                        <<"view", "player", "subtitle-body">>}
        /\ thrownKind # "none" => (providerPc = "done" /\ providerAnswer.status = 500)
        /\ (providerPc = "done" /\ thrownKind = "none" /\ provider.pages = "none")
               => (providerAnswer.status = 404 /\ callLog = <<"view">>)
        /\ (providerPc = "done" /\ thrownKind = "none" /\ provider.pages = "cid"
               /\ provider.subtitles = <<>>)
               => (providerAnswer.status = 404 /\ callLog = <<"view", "player">>)
        /\ Len(callLog) = 3 => chosenSubtitle = FirstChineseElseFirst

C30_Witness_ChineseTrackSecond ==
    /\ provider.api = "transcript" /\ provider.platform = "bilibili"
    /\ providerPc = "done" /\ providerAnswer.status = 200
    /\ Len(provider.subtitles) = 2
    /\ ~IsChineseSub(provider.subtitles[1])
    /\ chosenSubtitle = provider.subtitles[2]

\* C23: pageState only moves IDLE -> ANALYZING_NEW -> IDLE or
\* IDLE -> LOADING_CACHED -> IDLE: it never changes directly between
\* ANALYZING_NEW and LOADING_CACHED, a miss does not go on from
\* LOADING_CACHED and a hit is not found from ANALYZING_NEW, whatever the
\* route's parameters and the cache's answer.
C23_PageStatePaths ==
    [][ /\ pageState' # pageState =>
              <<pageState, pageState'>> \in
                  {<<"IDLE", "ANALYZING_NEW">>, <<"ANALYZING_NEW", "IDLE">>,
                   <<"IDLE", "LOADING_CACHED">>, <<"LOADING_CACHED", "IDLE">>}
        /\ (pc = "cache" /\ outcome' = "hit") => pageState # "ANALYZING_NEW"
        /\ (pc # "fetch" /\ pc' = "fetch") => pageState # "LOADING_CACHED" ]_vars

\* C24: every processVideo invocation that has run to its end, on whichever
\* path (invalid URL, cache hit, rate-limit redirect or message, transcript
\* failure, topic failure, 429, success), has left pageState IDLE and
\* loadingStage null.
C24_RunEndsIdle ==
    pc = "done" => (pageState = "IDLE" /\ loadingStage = NULL)

C24_Witness_EveryPathEnds ==
    /\ pc = "done"
    /\ runs = 2
    /\ outcome = "transcript-failed"
    /\ pageStateLog = <<"ANALYZING_NEW", "IDLE">>

C26_BackgroundFailureLeavesView ==
    [][ (background' # background /\ background' \subseteq background)
            => UNCHANGED <<error, topics, transcript, selectedTopic, pageState>> ]_vars

\* The theme refresh of a cached video has settled and left no themes: it failed.
C26_Witness_ThemeRefreshFailed ==
    /\ runs = 1
    /\ outcome = "hit"
    /\ "load-cached-themes" \notin background
    /\ themes = {}
    /\ topics.n > 0
    /\ selectedTopic = FirstTopic(topics)
    /\ error = ""
    /\ pageState = "IDLE"


\* C27: selecting a new theme while a previous theme's request is in flight
\* cancels the stale request: after handleThemeSelect(B), with B another theme
\* than A and A's request outstanding, A's request is no longer in flight.
C27_SupersededRequestAborted ==
    [][ \A req \in themeInFlight :
          (selectedThemeRef' # selectedThemeRef /\ selectedThemeRef' \in Themes \ {req.theme})
             => req \notin themeInFlight' ]_vars


\* C28: theme request ids increase over the life of the page: every new theme
\* request receives an id greater than every id issued before it, across
\* successive processVideo runs too.
C28_ThemeRequestIdsIncrease ==
    [][ \A req \in themeInFlight' \ themeInFlight :
          \A i \in issuedThemeIds : req.id > i ]_vars


\* The indexes 0, 1, ..., n-1 in order.
IndexesUpTo(n) == [i \in 1..n |-> i - 1]

\* C29: a citation reel plays its spans one after the other: while the reel is
\* the selected topic its segment index only moves from i to i+1, when the
\* playback time has reached the end of span i, with a seek to the start of
\* span i+1; until the reel ends the spans sought to are 0, 1, ..., index, each
\* once; the reel ends after the last span, with every span visited, playback
\* paused and the index back at 0.
C29_CitationReelSequential ==
    [][LET segments == citationReel.segments
           index == citationReelSegmentIndex
       IN  /\ (citationReel # NoReel /\ citationReel' = citationReel
                  /\ citationReelSegmentIndex' # index) =>
                 /\ currentTime >= segments[index + 1].end
                 /\ \/ /\ citationReelSegmentIndex' = index + 1
                       /\ index + 2 \in DOMAIN segments
                       /\ currentTime' = segments[index + 2].start
                    \/ /\ citationReelSegmentIndex' = 0
                       /\ index = Len(segments) - 1
                       /\ ~isPlaying'
           /\ (~reelEnded /\ reelEnded') =>
                 /\ reelLog = IndexesUpTo(Len(segments))
                 /\ index = Len(segments) - 1
                 /\ currentTime >= segments[index + 1].end
                 /\ ~isPlaying'
                 /\ citationReelSegmentIndex' = 0
           /\ (citationReel' # NoReel /\ ~reelEnded') =>
                 reelLog' = IndexesUpTo(citationReelSegmentIndex' + 1)]_vars

\* A reel of two citations, the second earlier in the video than the first,
\* has played both spans and ended: playback is paused at the end of the
\* second span.
C29_Witness_ReelPlayedThrough ==
    /\ reelEnded
    /\ Len(citationReel.segments) = 2
    /\ citationReel.segments[1].start > citationReel.segments[2].start
    /\ reelLog = <<0, 1>>
    /\ citationReelSegmentIndex = 0
    /\ ~isPlaying
    /\ currentTime = citationReel.segments[2].end


\* C31: the YouTube transcript failures are classified: an upstream 404 gives
\* 404; a non-2xx response that indicates a language problem gives 400; any
\* other non-2xx response gives 500; a 2xx response that is partial (206) or
\* carries an error field gives 400 if it indicates a language problem and 404
\* otherwise; a 2xx response with empty content gives 404; no failure is
\* answered with 200.
C31_YouTubeFailuresClassified ==
    LET u == ytUpstream
        ok == ResponseOk(u.status)
        flagged == u.status = 206 \/ u.hasSupadataError
    IN  (ytStatus # 0 /\ u.kind = "response") =>
            /\ u.status = 404 => ytStatus = 404
            /\ (~ok /\ u.status # 404 /\ u.language) => ytStatus = 400
            /\ (~ok /\ u.status # 404 /\ ~u.language) => ytStatus = 500
            /\ (ok /\ flagged) => ytStatus = (IF u.language THEN 400 ELSE 404)
            /\ (ok /\ ~flagged /\ u.content \in {"none", "empty"}) => ytStatus = 404
            /\ ytStatus = 200 => (ok /\ ~flagged /\ u.content = "english")

\* C32: for a valid video URL /api/video-info answers 200 with videoId, title
\* and author whatever the upstream does; for YouTube Supadata is asked first
\* and only when the key is configured, oEmbed only when Supadata is absent,
\* non-2xx or throws, and the placeholder only when oEmbed fails too.
C32_VideoInfoAlwaysAnswers ==
    LET c == infoUpstream
        a == infoAnswer
    IN  a # NoInfoAnswer =>
            /\ a.status = 200
            /\ AllInfoFields \subseteq a.fields
            /\ c.platform = "youtube" =>
                  /\ a.calls \in {<<"supadata">>, <<"supadata", "oembed">>, <<"oembed">>}
                  /\ (a.calls[1] = "supadata") = c.apiKey
                  /\ a.calls[Len(a.calls)] = "oembed" =>
                        (~c.apiKey \/ ~Readable(c.supadata))
                  /\ a.from = "placeholder" =>
                        (a.calls[Len(a.calls)] = "oembed" /\ ~Readable(c.oembed))


\* C33: a superseded analysis never writes into the newer one: once
\* processVideo has been invoked again, the earlier invocation changes none of
\* error, pageState, loadingStage, transcript and topics.
C33_SupersededRunWritesNothing ==
    [][(superseded # NoRun /\ superseded' = NoRun) =>
          UNCHANGED <<error, pageState, loadingStage, transcript, topics>>]_vars


\* C34: the page never goes blank after an analysis: whenever processVideo has
\* finished, pageState is IDLE and a video id is set, topics is non-empty (the
\* results view) or error is non-empty (the error card).
C34_NeverBlank ==
    (pc = "done" /\ pageState = "IDLE" /\ videoId # NULL) => (topics.n > 0 \/ error # "")

(***************************************************************************)
(* Persisting a generated analysis: 'save-complete-analysis' and           *)
(* 'generate-questions' with its 'update-questions' run side by side. The  *)
(* routes /api/save-analysis and /api/update-video-analysis are not part   *)
(* of the sources: the first stores through the upsert function, the       *)
(* second merges the fields it is given into the record of the video and   *)
(* answers 404 when there is none.                                         *)
(***************************************************************************)
\* The questions buildSuggestedQuestionFallbacks builds.
FallbackQuestions == "fallback"

\* The records of a video.
RecordsOf(tbl, id) == {i \in DOMAIN tbl : VideoKey(tbl[i].bvid, tbl[i].aid) = id}

\* /api/save-analysis: the table after it.
SaveAnalysisRows(tbl, a) == UpsertRows(tbl, a)

\* /api/update-video-analysis: its status and the table after it.
UpdateVideoAnalysisStatus(tbl, id) == IF RecordsOf(tbl, id) = {} THEN 404 ELSE 200

UpdateVideoAnalysisRows(tbl, id, questions) ==
    [i \in DOMAIN tbl |->
        IF i \in RecordsOf(tbl, id)
        THEN [tbl[i] EXCEPT !.suggested_questions = Coalesce(questions, @)]
        ELSE tbl[i]]

\* What 'save-complete-analysis' posts for a video: generatedTakeaways is null
\* when the summary failed, and no suggested questions go with it.
SaveBodies ==
    {a \in UpsertArgs :
        /\ (a.bvid = NULL) # (a.aid = NULL)
        /\ a.transcript # NULL
        /\ a.topics # NULL
        /\ a.suggested_questions = NULL}

\* The fetch of 'save-complete-analysis' settles.
SaveAnalysisSettles(ok) ==
    /\ savePc = "sent"
    /\ savePc' = IF ok THEN "stored" ELSE "failed"
    /\ rows' = IF ok THEN SaveAnalysisRows(rows, saveArgs) ELSE rows
    /\ UNCHANGED <<saveArgs, questionsPc, normalizedQuestions>>
    /\ UNCHANGED <<ytRows, supplied, sessionUser, userVideos, cacheResult, pageVars,
                   besidePage, superseded>>

\* The fetch of /api/suggested-questions settles: a response that is not ok
\* ends the operation with the fallbacks and no update; an empty list is
\* replaced by the fallbacks.
SuggestedQuestionsSettle(reply) ==
    /\ questionsPc = "generating"
    /\ questionsPc' = IF reply = "not-ok" THEN "unsaved" ELSE "updating"
    /\ normalizedQuestions' =
         IF reply = "not-ok" THEN NULL
         ELSE IF reply = "empty" THEN FallbackQuestions ELSE reply
    /\ UNCHANGED <<saveArgs, savePc>>
    /\ UNCHANGED <<dbVars, pageVars, besidePage, superseded>>

\* Whether 'update-questions' throws on a status.
UpdateThrows(status) == ~ResponseOk(status) /\ status # 404

\* The fetch of 'update-questions' settles, the route having served it or not.
UpdateQuestionsSettle(served) ==
    /\ questionsPc = "updating"
    /\ LET id == VideoKey(saveArgs.bvid, saveArgs.aid)
           status == IF served THEN UpdateVideoAnalysisStatus(rows, id) ELSE 500
       IN /\ questionsPc' = IF UpdateThrows(status) THEN "failed" ELSE "settled"
          /\ rows' = IF served
                     THEN UpdateVideoAnalysisRows(rows, id, normalizedQuestions)
                     ELSE rows
    /\ UNCHANGED <<saveArgs, savePc, normalizedQuestions>>
    /\ UNCHANGED <<ytRows, supplied, sessionUser, userVideos, cacheResult, pageVars,
                   besidePage, superseded>>

QuestionReplies == JVals("suggested_questions") \cup {"empty", "not-ok"}

\* A miss-path analysis has just started both operations; the table holds
\* nothing or the record of another video.
InitPersisting ==
    /\ InitDb
    /\ QuietPage
    /\ InitLib
    /\ InitRoute
    /\ InitPlayer
    /\ InitLink
    /\ InitSubtitle
    /\ InitProvider
    /\ InitUpstream
    /\ superseded = NoRun
    /\ saveArgs \in SaveBodies
    /\ savePc = "sent"
    /\ questionsPc = "generating"
    /\ normalizedQuestions = NULL

NextPersist ==
    \/ \E ok \in BOOLEAN : SaveAnalysisSettles(ok)
    \/ \E reply \in QuestionReplies : SuggestedQuestionsSettle(reply)
    \/ \E served \in BOOLEAN : UpdateQuestionsSettle(served)

SpecPersist == InitPersisting /\ [][NextPersist]_vars

\* C35: once 'save-complete-analysis' has stored the analysis and
\* 'update-questions' has settled without an error, every record of the
\* video holds the questions that were posted, whichever request the server
\* served first.
C35_QuestionsPersisted ==
    (savePc = "stored" /\ questionsPc = "settled") =>
        /\ RecordsOf(rows, VideoKey(saveArgs.bvid, saveArgs.aid)) # {}
        /\ \A i \in RecordsOf(rows, VideoKey(saveArgs.bvid, saveArgs.aid)) :
              rows[i].suggested_questions = normalizedQuestions

\* C36: no update of the used-topic-key set is lost: when the response of a
\* theme request has been processed, usedTopicKeys holds every key it held
\* before (those of the base topics and of the responses processed earlier)
\* and the keys of the response's topics.
C36_NoLostUsedTopicKey ==
    [][\A req \in themeInFlight \ themeInFlight' :
          (themeTopicsMap[req.theme] = NoList /\ themeTopicsMap'[req.theme] # NoList) =>
              /\ usedTopicKeys \subseteq usedTopicKeys'
              /\ QuoteKeys(themeTopicsMap'[req.theme]) \subseteq usedTopicKeys']_vars

\* C37: the theme loading indicator tracks the request of the selected
\* theme: isLoadingThemeTopics holds only while a request for the selected
\* theme is in flight, so it is false once every theme request has settled.
C37_LoadingTracksSelectedRequest ==
    isLoadingThemeTopics => \E req \in themeInFlight : req.theme = selectedTheme

\* Two theme requests were issued and both have settled while a theme is selected.
C37_Witness_AllSettled ==
    /\ Cardinality(issuedThemeIds) >= 2
    /\ themeInFlight = {}
    /\ selectedTheme # NULL
    /\ discarded # {}
    /\ ~isLoadingThemeTopics

\* C38: detectPlatform and extractVideoId agree: when both return non-null
\* for a URL, the extracted ID is an eleven-character YouTube ID when the
\* platform is 'youtube' and a BV or av identifier when it is 'bilibili'.
C38_PlatformAndIdAgree ==
    (extracted \notin {"unset", NULL} /\ detectPlatform(url.text) # NULL) =>
        IF detectPlatform(url.text) = "youtube"
        THEN TokLen(extracted) = 11 \/ extracted = "eleven-characters"
        ELSE extracted \in BvTokens \cup DigitTokens

(***************************************************************************)
(* The kind of a Bilibili identifier, as the requests built from it tell   *)
(* it: the view and player API calls of lib/bilibili-client and the embed  *)
(* URL of the player component.                                            *)
(***************************************************************************)
\* videoId.startsWith('BV'), videoId.startsWith('av'), videoId.substring(2)
AvTexts == {"av101"}
StartsWithBV(id) == id \in BvTokens
StartsWithAv(id) == id \in AvTexts
Substring2(id) == IF id = "av101" THEN "101" ELSE id

Query(param, value) == [param |-> param, value |-> value]

\* getBilibiliVideoInfo: the query of x/web-interface/view.
ViewQuery(id) == IF StartsWithBV(id) THEN Query("bvid", id) ELSE Query("aid", id)

\* getBilibiliSubtitles: the query of x/player/v2.
PlayerV2Query(id) == IF StartsWithBV(id) THEN Query("bvid", id) ELSE Query("aid", id)

\* getBilibiliEmbedUrl: the query of player.html.
getBilibiliEmbedUrl(id) ==
    IF StartsWithBV(id) THEN Query("bvid", id)
    ELSE IF StartsWithAv(id) THEN Query("aid", Substring2(id))
    ELSE Query("bvid", id)

\* C39: a Bilibili identifier keeps its kind end to end: what extractVideoId
\* returns for a BV-form URL is queried as bvid, and what it returns for an
\* av-form URL as aid, by getBilibiliVideoInfo, getBilibiliSubtitles and the
\* player's embed URL alike.
C39_BilibiliIdKeepsKind ==
    (url.host = "bilibili" /\ extracted \notin {"unset", NULL}) =>
        LET kind == IF url.id \in BvTokens THEN "bvid" ELSE "aid"
        IN  /\ ViewQuery(extracted) = Query(kind, url.id)
            /\ PlayerV2Query(extracted) = Query(kind, url.id)
            /\ getBilibiliEmbedUrl(extracted) = Query(kind, url.id)

====
